---- MODULE Spec2Model ----
(***************************************************************************)
(* OpsIntel360: the ETL orchestrator (src/etl), the refresh endpoint and   *)
(* its background task (src/api/endpoints.py).                             *)
(*                                                                         *)
(* The specifications share the variables:                                 *)
(*   Spec      the API process: POST /refresh, GET /status and the         *)
(*             background refresh tasks, which run in worker threads and   *)
(*             interleave at the granularity of the actions below;         *)
(*   SpecETL   the command line entry point etl_pipeline.main(), which     *)
(*             runs run_full_pipeline once per invocation, one invocation  *)
(*             after the other;                                            *)
(*   SpecClean clean_dataframe as a function of an arbitrary bounded frame;*)
(*   SpecAnomaly the anomaly engine (src/models/anomalies.py): each of     *)
(*             detect_zscore_anomalies, detect_all_anomalies and           *)
(*             generate_anomaly_insights called on bounded inputs;         *)
(*   SpecInsight the domain analyzers of the insight engine                *)
(*             (src/models/insights.py), each called on bounded tables.    *)
(***************************************************************************)
EXTENDS Integers, Sequences, FiniteSets, TLC

VARIABLES
    refresh_status,   \* endpoints.py:30 the process-wide status dict
    response,         \* the last HTTP response sent by the API
    clock,            \* datetime.now(), as a counter
    run,              \* per runner (background task or CLI): its position and locals
    db,               \* the five fact tables of the SQLite database
    csv,              \* the five source files in config.DATA_DIR
    schema_file,      \* database/schema.sql: "ok", "missing" or "malformed"
    etl_summary,      \* the artifact etl_summary.json
    faults,           \* failures of external collaborators injected so far
    call,             \* a function called on its own: its argument, locals and result
    derived           \* the derived tables anomalies, insights and forecasts

vars == <<refresh_status, response, clock, run, db, csv, schema_file,
          etl_summary, faults, call, derived>>

---------------------------------------------------------------------------
(* Bounds *)

MaxTasks == 2
MaxRuns == 2
MaxFaults == 1
MaxRows == 3

---------------------------------------------------------------------------
(* Data frames.  A raw row is one CSV line: a date token, one numeric      *)
(* column and one categorical column; an empty CSV field is read as NaN.   *)

NaN == -1
NaT == 0
NoText == ""

ToDatetimeFails(tok) == tok = "not-a-date"

ToDatetime(tok) ==
    CASE tok = "2023-01-31" -> 20230131
      [] tok = "01/31/2023" -> 20230131
      [] tok = "2023-02-28" -> 20230228
      [] OTHER -> NaT

RECURSIVE Insert(_, _)
Insert(x, s) ==
    IF s = <<>> THEN <<x>>
    ELSE IF x <= Head(s) THEN <<x>> \o s
    ELSE <<Head(s)>> \o Insert(x, Tail(s))

RECURSIVE Sort(_)
Sort(s) == IF s = <<>> THEN <<>> ELSE Insert(Head(s), Sort(Tail(s)))

DropNa(s) == SelectSeq(s, LAMBDA x : x # NaN)

\* Series.median(): NaN values are skipped; the median of no value is NaN.
\* The numeric values of the model are even, so the mean of the two middle
\* values is exact.
Median(s) ==
    LET v == Sort(DropNa(s))
        n == Len(v)
    IN  IF n = 0 THEN NaN
        ELSE IF n % 2 = 1 THEN v[(n + 1) \div 2]
        ELSE (v[n \div 2] + v[n \div 2 + 1]) \div 2

Column(df, c) == [i \in 1..Len(df) |-> df[i][c]]

\* DataFrame.drop_duplicates(): the first occurrence of each row is kept.
DropDuplicates(df) ==
    LET keep(i) == \A j \in 1..(i - 1) : df[j] # df[i]
        RECURSIVE F(_)
        F(i) == IF i > Len(df) THEN <<>>
                ELSE IF keep(i) THEN <<df[i]>> \o F(i + 1) ELSE F(i + 1)
    IN  F(1)

\* read_csv gives a column with no text in it the dtype float64 (all fields
\* empty) and a column with some text the dtype object.
IsObjectColumn(df, c) == \E i \in 1..Len(df) : df[i][c] # NoText

ConvertDates(df) ==
    [i \in 1..Len(df) |-> [df[i] EXCEPT !.date = ToDatetime(df[i].date)]]

FillNumeric(df) ==
    LET col == Column(df, "num")
    IN  IF \E i \in 1..Len(df) : col[i] = NaN
        THEN [i \in 1..Len(df) |->
                 IF df[i].num = NaN THEN [df[i] EXCEPT !.num = Median(col)]
                 ELSE df[i]]
        ELSE df

FillCategorical(df) ==
    IF IsObjectColumn(df, "cat")
    THEN [i \in 1..Len(df) |->
             IF df[i].cat = NoText THEN [df[i] EXCEPT !.cat = "Unknown"]
             ELSE df[i]]
    ELSE df

CleanRaises(df) == \E i \in 1..Len(df) : ToDatetimeFails(df[i].date)

\* clean_dataframe without drop_duplicates
CleanKeepsDuplicates(df) == FillCategorical(FillNumeric(ConvertDates(df)))

clean_dataframe(df) == FillCategorical(FillNumeric(DropDuplicates(ConvertDates(df))))

Row(d, n, c) == [date |-> d, num |-> n, cat |-> c]

\* Source files a user may have put in the data directory.
DirtyFrame ==
    << Row("2023-01-31", 10, "East"), Row("01/31/2023", 10, "East"),
       Row("2023-02-28", NaN, NoText), Row("2023-02-28", 30, "West") >>
BadDateFrame == << Row("2023-01-31", 10, "East"), Row("not-a-date", 20, "West") >>
UserFrames == {DirtyFrame, BadDateFrame}

\* What generate_all_data writes: no missing value, one row per date.
GeneratedA == << Row("2023-01-31", 10, "East"), Row("2023-02-28", 20, "West") >>
GeneratedFrames == {GeneratedA}

---------------------------------------------------------------------------
(* The ETL orchestrator *)

TableOrder == <<"finance", "sales", "operations", "hr", "it_tickets">>
Tables == {TableOrder[i] : i \in 1..Len(TableOrder)}

CLI == 0
Tasks == 1..MaxTasks
Runners == {CLI} \cup Tasks

AbsentTable == [exists |-> FALSE, rows |-> <<>>]
MissingFile == [exists |-> FALSE, rows |-> <<>>]
File(f) == [exists |-> TRUE, rows |-> f]

NoSummary == [exists |-> FALSE, tables_loaded |-> 0, total_rows |-> 0]

DefaultRequest ==
    [regenerate_data |-> FALSE, run_forecasting |-> TRUE,
     run_anomaly_detection |-> TRUE, run_insights |-> TRUE]

\* What a run found when it started (kept for the command line runs only).
NoSnapshot ==
    [db |-> [t \in Tables |-> AbsentTable], csv |-> [t \in Tables |-> MissingFile],
     summary |-> NoSummary, ok |-> FALSE]

\* The locals of a run.  attempted, load_failed, failures, error and before
\* record what happened; the code does not read them.
IdleRun ==
    [pc |-> "idle", request |-> DefaultRequest, invocation |-> 0, idx |-> 1,
     load_results |-> [t \in Tables |-> 0], attempted |-> {}, load_failed |-> {},
     checks_failed |-> 0, failures |-> {}, error |-> "", before |-> NoSnapshot]

RECURSIVE SumOver(_, _)
SumOver(f, S) ==
    IF S = {} THEN 0
    ELSE LET t == CHOOSE x \in S : TRUE IN f[t] + SumOver(f, S \ {t})

CanFault == faults < MaxFaults

\* an except clause that reports the error but leaves the status as it was
EscapeKeepsStatus(k, msg) ==
    /\ run' = [run EXCEPT ![k].pc = IF k = CLI THEN "aborted" ELSE "failed",
                          ![k].error = msg,
                          ![k].failures = @ \cup {msg}]
    /\ refresh_status' =
         IF k = CLI THEN refresh_status
         ELSE [refresh_status EXCEPT !.message = "Error during refresh: " \o msg]

\* What an exception escaping run_full_pipeline does to its caller: the
\* background task catches it (endpoints.py:88-90), the CLI process dies.
Escape(k, msg) ==
    /\ run' = [run EXCEPT ![k].pc = IF k = CLI THEN "aborted" ELSE "failed",
                          ![k].error = msg,
                          ![k].failures = @ \cup {msg}]
    /\ refresh_status' =
         IF k = CLI THEN refresh_status
         ELSE [refresh_status EXCEPT !.status = "failed",
                                     !.message = "Error during refresh: " \o msg]

\* conn.executescript(schema_sql): database/schema.sql is DDL for the tables
\* of the store; it holds no rows and is taken to leave the rows of the
\* fact tables as they are.
RunSchemaScript(tables) == tables

\* _init_db that prints the error of init_database and does not raise it again
InitDbSwallows(k) ==
    /\ run[k].pc = "etl_init"
    /\ run' = [run EXCEPT ![k].pc = "etl_data",
                          ![k].error = IF schema_file = "ok" THEN @
                                       ELSE "schema " \o schema_file]
    /\ db' = IF schema_file = "ok" THEN RunSchemaScript(db) ELSE db
    /\ UNCHANGED <<refresh_status, response, clock, csv, schema_file,
                   etl_summary, faults, call, derived>>

\* [1/5] _init_db -> init_database: a missing schema file raises before the
\* database is opened, a malformed one makes executescript raise; _init_db
\* prints the error and raises it again.
InitDb(k) ==
    /\ run[k].pc = "etl_init"
    /\ IF schema_file = "ok"
       THEN /\ run' = [run EXCEPT ![k].pc = "etl_data"]
            /\ db' = RunSchemaScript(db)
            /\ UNCHANGED refresh_status
       ELSE /\ Escape(k, "schema " \o schema_file)
            /\ UNCHANGED db
    /\ UNCHANGED <<response, clock, csv, schema_file, etl_summary, faults, call, derived>>

DataFilesExist == \A t \in Tables : csv[t].exists

\* generate_all_data writes the five files in the order of TableOrder; a
\* failure after n files leaves those n written.
GeneratedFiles(g, n) ==
    [t \in Tables |->
        IF \E i \in 1..n : TableOrder[i] = t THEN File(g) ELSE csv[t]]

\* [2/5] _data_files_exist, _generate_data
EnsureData(k) ==
    /\ run[k].pc = "etl_data"
    /\ IF run[k].request.regenerate_data \/ ~DataFilesExist
       THEN \E g \in GeneratedFrames :
              \/ /\ csv' = GeneratedFiles(g, Len(TableOrder))
                 /\ run' = [run EXCEPT ![k].pc = "etl_load", ![k].idx = 1]
                 /\ UNCHANGED <<refresh_status, faults>>
              \/ /\ CanFault
                 /\ \E n \in 0..(Len(TableOrder) - 1) : csv' = GeneratedFiles(g, n)
                 /\ faults' = faults + 1
                 /\ Escape(k, "data generation")
       ELSE /\ run' = [run EXCEPT ![k].pc = "etl_load", ![k].idx = 1]
            /\ UNCHANGED <<refresh_status, csv, faults>>
    /\ UNCHANGED <<response, clock, db, schema_file, etl_summary, call, derived>>

\* DataFrame.to_sql(table, conn, if_exists='replace'): DROP TABLE (committed
\* at once), CREATE TABLE (committed), then every INSERT in one transaction
\* that is rolled back on an error.  outcome names how far it got.
ToSqlOutcomes == {"ok", "fail_connect", "fail_after_drop", "fail_insert"}

\* to_sql with if_exists='append'
ToSqlAppends(old, df, outcome) ==
    CASE outcome = "ok" -> [exists |-> TRUE, rows |-> old.rows \o df]
      [] outcome = "fail_connect" -> old
      [] outcome = "fail_after_drop" -> old
      [] outcome = "fail_insert" -> old

ToSql(old, df, outcome) ==
    CASE outcome = "ok" -> [exists |-> TRUE, rows |-> df]
      [] outcome = "fail_connect" -> old
      [] outcome = "fail_after_drop" -> AbsentTable
      [] outcome = "fail_insert" -> [exists |-> TRUE, rows |-> <<>>]

\* load_csv_to_db raises before it touches the database when the file is
\* missing (utils.py:92) or pd.to_datetime rejects a date (utils.py:59).
LoadRaisesEarly(t) == ~csv[t].exists \/ CleanRaises(csv[t].rows)

\* a loop that stops at the first table whose load raises
LoadResultStopsAtFailure(r, t, rows, raised) ==
    LET last == r.idx = Len(TableOrder)
    IN  [r EXCEPT !.load_results[t] = IF raised THEN 0 ELSE rows,
                  !.load_failed = IF raised THEN @ \cup {t} ELSE @,
                  !.failures = IF raised THEN @ \cup {"table load"} ELSE @,
                  !.attempted = @ \cup {t},
                  !.idx = IF last \/ raised THEN 1 ELSE @ + 1,
                  !.pc = IF last \/ raised THEN "etl_quality" ELSE @]

\* _load_all_data, the body of the loop for table t: r is the run's locals,
\* rows the value load_csv_to_db returned, raised whether it raised.
LoadResult(r, t, rows, raised) ==
    LET last == r.idx = Len(TableOrder)
    IN  [r EXCEPT !.load_results[t] = IF raised THEN 0 ELSE rows,
                  !.load_failed = IF raised THEN @ \cup {t} ELSE @,
                  !.failures = IF raised THEN @ \cup {"table load"} ELSE @,
                  !.attempted = @ \cup {t},
                  !.idx = IF last THEN 1 ELSE @ + 1,
                  !.pc = IF last THEN "etl_quality" ELSE @]

\* [3/5] one iteration of the loop of _load_all_data
LoadTable(k) ==
    /\ run[k].pc = "etl_load"
    /\ LET t == TableOrder[run[k].idx]
       IN  IF LoadRaisesEarly(t)
           THEN /\ run' = [run EXCEPT ![k] = LoadResult(@, t, 0, TRUE)]
                /\ UNCHANGED <<db, faults>>
           ELSE LET df == clean_dataframe(csv[t].rows)
                IN  \E o \in ToSqlOutcomes :
                      /\ o # "ok" => CanFault
                      /\ faults' = IF o = "ok" THEN faults ELSE faults + 1
                      /\ db' = [db EXCEPT ![t] = ToSql(@, df, o)]
                      /\ run' = [run EXCEPT ![k] = LoadResult(@, t, Len(df), o # "ok")]
    /\ UNCHANGED <<refresh_status, response, clock, csv, schema_file,
                   etl_summary, call, derived>>

\* [4/5] _run_quality_checks: a table with no row, or one that cannot be
\* queried, counts as a failed check; nothing is raised.
ChecksFailed ==
    Cardinality({t \in Tables : ~db[t].exists \/ Len(db[t].rows) = 0})

QualityChecks(k) ==
    /\ run[k].pc = "etl_quality"
    /\ run' = [run EXCEPT ![k].pc = "etl_summary", ![k].checks_failed = ChecksFailed]
    /\ UNCHANGED <<refresh_status, response, clock, db, csv, schema_file,
                   etl_summary, faults, call, derived>>

SummaryReport(k) ==
    [exists |-> TRUE, tables_loaded |-> Len(TableOrder),
     total_rows |-> SumOver(run[k].load_results, Tables)]

\* the stages after the ETL, whatever the request flags say
StageAfterIgnoresFlags(req, stage) ==
    CASE stage = "etl" -> "forecast"
      [] stage = "forecast" -> "anomaly"
      [] stage = "anomaly" -> "insight"
      [] OTHER -> "complete"

\* endpoints.py:66-84: the stages after the ETL, each behind its request flag.
StageAfter(req, stage) ==
    IF stage = "etl" /\ req.run_forecasting THEN "forecast"
    ELSE IF stage \in {"etl", "forecast"} /\ req.run_anomaly_detection THEN "anomaly"
    ELSE IF stage \in {"etl", "forecast", "anomaly"} /\ req.run_insights THEN "insight"
    ELSE "complete"

\* Where a runner goes when run_full_pipeline returns.
AfterEtl(k) == IF k = CLI THEN "done" ELSE StageAfter(run[k].request, "etl")

\* [5/5] _generate_summary
GenerateSummary(k) ==
    /\ run[k].pc = "etl_summary"
    /\ \/ /\ etl_summary' = SummaryReport(k)
          /\ run' = [run EXCEPT ![k].pc = AfterEtl(k)]
          /\ UNCHANGED <<refresh_status, faults>>
       \/ /\ CanFault
          /\ faults' = faults + 1
          /\ Escape(k, "summary report")
          /\ UNCHANGED etl_summary
    /\ UNCHANGED <<response, clock, db, csv, schema_file, call, derived>>

\* etl_pipeline.main(): one invocation of the command line
EtlMain(regenerate) ==
    /\ run[CLI].pc \in {"idle", "done", "aborted"}
    /\ run[CLI].invocation < MaxRuns
    /\ run' = [run EXCEPT ![CLI] = [IdleRun EXCEPT
                   !.pc = "etl_init",
                   !.request.regenerate_data = regenerate,
                   !.invocation = run[CLI].invocation + 1,
                   !.before = [db |-> db, csv |-> csv, summary |-> etl_summary,
                               ok |-> run[CLI].pc = "done"
                                      /\ run[CLI].load_failed = {}]]]
    /\ UNCHANGED <<refresh_status, response, clock, db, csv, schema_file,
                   etl_summary, faults, call, derived>>

\* The environment: the schema file is repaired or broken, a source file is
\* removed.  Breaking something counts as an injected fault.
EditSchema(s) ==
    /\ schema_file # s
    /\ s # "ok" => CanFault
    /\ schema_file' = s
    /\ faults' = IF s = "ok" THEN faults ELSE faults + 1
    /\ UNCHANGED <<refresh_status, response, clock, run, db, csv,
                   etl_summary, call, derived>>

RemoveSource(t) ==
    /\ CanFault
    /\ csv[t].exists
    /\ csv' = [csv EXCEPT ![t] = MissingFile]
    /\ faults' = faults + 1
    /\ UNCHANGED <<refresh_status, response, clock, run, db, schema_file,
                   etl_summary, call, derived>>

---------------------------------------------------------------------------
(* The API: POST /refresh, GET /status and the background refresh task *)

Requests ==
    { DefaultRequest,
      [DefaultRequest EXCEPT !.regenerate_data = TRUE, !.run_anomaly_detection = FALSE],
      [DefaultRequest EXCEPT !.run_forecasting = FALSE,
                             !.run_anomaly_detection = FALSE,
                             !.run_insights = FALSE] }

Reply(ep, code, status) == [endpoint |-> ep, code |-> code, status |-> status]

FreeTasks == {k \in Tasks : run[k].pc = "idle"}

\* POST /refresh without the check of the status
refresh_data_unguarded(req) ==
    /\ FreeTasks # {}
    /\ LET k == CHOOSE x \in FreeTasks : \A y \in FreeTasks : x <= y
       IN  run' = [run EXCEPT ![k] = [IdleRun EXCEPT
                      !.pc = "scheduled", !.request = req]]
    /\ response' = Reply("refresh", 200, "accepted")
    /\ UNCHANGED <<refresh_status, clock, db, csv, schema_file, etl_summary,
                   faults, call, derived>>

\* POST /refresh that accepts a request only while the status is idle or
\* completed
refresh_data_refuses_failed(req) ==
    /\ IF refresh_status.status \in {"running", "failed"}
       THEN /\ response' = Reply("refresh", 409, "error")
            /\ UNCHANGED run
       ELSE /\ FreeTasks # {}
            /\ LET k == CHOOSE x \in FreeTasks : \A y \in FreeTasks : x <= y
               IN  run' = [run EXCEPT ![k] = [IdleRun EXCEPT
                              !.pc = "scheduled", !.request = req]]
            /\ response' = Reply("refresh", 200, "accepted")
    /\ UNCHANGED <<refresh_status, clock, db, csv, schema_file, etl_summary,
                   faults, call, derived>>

\* POST /refresh.  add_task only queues the task: Starlette starts it, in a
\* worker thread, after the response has been sent.
refresh_data(req) ==
    /\ IF refresh_status.status = "running"
       THEN /\ response' = Reply("refresh", 409, "error")
            /\ UNCHANGED run
       ELSE /\ FreeTasks # {}
            /\ LET k == CHOOSE x \in FreeTasks : \A y \in FreeTasks : x <= y
               IN  run' = [run EXCEPT ![k] = [IdleRun EXCEPT
                              !.pc = "scheduled", !.request = req]]
            /\ response' = Reply("refresh", 200, "accepted")
    /\ UNCHANGED <<refresh_status, clock, db, csv, schema_file, etl_summary,
                   faults, call, derived>>

\* GET /status that resets the status it has reported
StatusQueryResets ==
    /\ response' = IF \A t \in Tables : db[t].exists
                   THEN Reply("status", 200, refresh_status.status)
                   ELSE Reply("status", 500, "error")
    /\ refresh_status' = [refresh_status EXCEPT !.status = "idle", !.message = ""]
    /\ UNCHANGED <<clock, run, db, csv, schema_file, etl_summary, faults, call, derived>>

\* GET /status: counts the rows of the five tables, then reports the status.
get_status ==
    /\ response' = IF \A t \in Tables : db[t].exists
                   THEN Reply("status", 200, refresh_status.status)
                   ELSE Reply("status", 500, "error")
    /\ UNCHANGED <<refresh_status, clock, run, db, csv, schema_file,
                   etl_summary, faults, call, derived>>

\* refresh_data_task, endpoints.py:58-63
StartRefresh(k) ==
    /\ k \in Tasks
    /\ run[k].pc = "scheduled"
    /\ refresh_status' = [refresh_status EXCEPT
                             !.status = "running",
                             !.message = "Running ETL pipeline..."]
    /\ run' = [run EXCEPT ![k].pc = "etl_init"]
    /\ UNCHANGED <<response, clock, db, csv, schema_file, etl_summary, faults, call, derived>>

\* endpoints.py:67-70; forecast_all_key_metrics catches every per-metric error
RunForecasting(k) ==
    /\ k \in Tasks
    /\ run[k].pc = "forecast"
    /\ refresh_status' = [refresh_status EXCEPT !.message = "Generating forecasts..."]
    /\ \E unit_failed \in BOOLEAN :
          /\ unit_failed => CanFault
          /\ faults' = IF unit_failed THEN faults + 1 ELSE faults
          /\ run' = [run EXCEPT ![k].pc = StageAfter(run[k].request, "forecast"),
                                ![k].failures =
                                    IF unit_failed THEN @ \cup {"metric forecast"} ELSE @]
    /\ UNCHANGED <<response, clock, db, csv, schema_file, etl_summary, call, derived>>

\* endpoints.py:73-76; detect_all_anomalies catches every per-metric error
RunAnomalyDetection(k) ==
    /\ k \in Tasks
    /\ run[k].pc = "anomaly"
    /\ refresh_status' = [refresh_status EXCEPT !.message = "Detecting anomalies..."]
    /\ \E unit_failed \in BOOLEAN :
          /\ unit_failed => CanFault
          /\ faults' = IF unit_failed THEN faults + 1 ELSE faults
          /\ run' = [run EXCEPT ![k].pc = StageAfter(run[k].request, "anomaly"),
                                ![k].failures =
                                    IF unit_failed THEN @ \cup {"metric scan"} ELSE @]
    /\ UNCHANGED <<response, clock, db, csv, schema_file, etl_summary, call, derived>>

\* endpoints.py:79-82; generate_all_insights catches the errors of an analyzer
\* and of insert_insight, but not those of _save_insights_to_json
InsightOutcomes == {"ok", "domain analyzer", "insight persistence", "export_failed"}

RunInsights(k) ==
    /\ k \in Tasks
    /\ run[k].pc = "insight"
    /\ \E o \in InsightOutcomes :
          /\ o # "ok" => CanFault
          /\ faults' = IF o = "ok" THEN faults ELSE faults + 1
          /\ IF o = "export_failed"
             THEN Escape(k, "insights export")
             ELSE /\ refresh_status' =
                       [refresh_status EXCEPT !.message = "Generating insights..."]
                  /\ run' = [run EXCEPT ![k].pc = "complete",
                                        ![k].failures =
                                            IF o = "ok" THEN @ ELSE @ \cup {o}]
    /\ UNCHANGED <<response, clock, db, csv, schema_file, etl_summary, call, derived>>

\* endpoints.py:84-86
CompleteRefresh(k) ==
    /\ k \in Tasks
    /\ run[k].pc = "complete"
    /\ clock' = clock + 1
    /\ refresh_status' = [status |-> "completed",
                          last_refresh |-> clock + 1,
                          message |-> "Data refresh completed successfully"]
    /\ run' = [run EXCEPT ![k].pc = "done"]
    /\ UNCHANGED <<response, db, csv, schema_file, etl_summary, faults, call, derived>>

\* insights.json before generate_all_insights has written it
NoArtifact ==
    [exists |-> FALSE, valid |-> FALSE, total_insights |-> 0, insights |-> <<>>]

\* The derived tables and the export artifact of the insight engine.
NoDerived ==
    [anomalies |-> <<>>, insights |-> <<>>, forecasts |-> <<>>,
     insights_json |-> NoArtifact]

NoCall == [fn |-> "none", arg |-> <<>>, done |-> FALSE, raised |-> FALSE, ret |-> <<>>]

InitStatus == [last_refresh |-> 0, status |-> "idle", message |-> ""]
NoResponse == Reply("none", 0, "none")

InitCommon ==
    /\ refresh_status = InitStatus
    /\ response = NoResponse
    /\ clock = 0
    /\ db = [t \in Tables |-> AbsentTable]
    /\ run = [k \in Runners |-> IdleRun]
    /\ etl_summary = NoSummary
    /\ faults = 0
    /\ derived = NoDerived

InitETL ==
    /\ InitCommon
    /\ call = NoCall
    /\ schema_file \in {"ok", "missing", "malformed"}
    /\ \/ csv \in [Tables -> {File(f) : f \in UserFrames}]
       \/ \E m \in SUBSET Tables :
             csv = [t \in Tables |-> IF t \in m THEN MissingFile ELSE File(DirtyFrame)]

NextETL ==
    \/ \E b \in BOOLEAN : EtlMain(b)
    \/ InitDb(CLI)
    \/ EnsureData(CLI)
    \/ LoadTable(CLI)
    \/ QualityChecks(CLI)
    \/ GenerateSummary(CLI)
    \/ \E s \in {"ok", "missing", "malformed"} : EditSchema(s)
    \/ \E t \in Tables : RemoveSource(t)

SpecETL == InitETL /\ [][NextETL]_vars

Init ==
    /\ InitCommon
    /\ call = NoCall
    /\ schema_file \in {"ok", "missing", "malformed"}
    /\ csv \in {[t \in Tables |-> File(DirtyFrame)], [t \in Tables |-> MissingFile]}

Next ==
    \/ \E req \in Requests : refresh_data(req)
    \/ get_status
    \/ \E k \in Tasks :
          \/ StartRefresh(k)
          \/ InitDb(k)
          \/ EnsureData(k)
          \/ LoadTable(k)
          \/ QualityChecks(k)
          \/ GenerateSummary(k)
          \/ RunForecasting(k)
          \/ RunAnomalyDetection(k)
          \/ RunInsights(k)
          \/ CompleteRefresh(k)

Spec == Init /\ [][Next]_vars

\* One step of the background task k.
TaskStep(k) ==
    \/ StartRefresh(k)
    \/ InitDb(k)
    \/ EnsureData(k)
    \/ LoadTable(k)
    \/ QualityChecks(k)
    \/ GenerateSummary(k)
    \/ RunForecasting(k)
    \/ RunAnomalyDetection(k)
    \/ RunInsights(k)
    \/ CompleteRefresh(k)

\* The API on a store for which no source file exists yet, with requests
\* that leave every stage on.
InitLive == Init /\ csv = [t \in Tables |-> MissingFile]

NextLive ==
    \/ refresh_data(DefaultRequest)
    \/ \E k \in Tasks : TaskStep(k)

\* Starlette runs every queued task, each in a worker thread that goes on
\* running, and every call a task makes returns or raises.
SpecLive == InitLive /\ [][NextLive]_vars /\ \A k \in Tasks : WF_vars(TaskStep(k))

---------------------------------------------------------------------------
(* clean_dataframe on every frame of at most MaxRows rows *)

RawDates == {"2023-01-31", "01/31/2023", "2023-02-28", "", "not-a-date"}
RawNums == {NaN, 10, 30}
RawCats == {NoText, "East"}
RawRows == {Row(d, n, c) : d \in RawDates, n \in RawNums, c \in RawCats}
Frames == UNION {[1..m -> RawRows] : m \in 0..MaxRows}

\* load_csv_to_db, utils.py:96-97: df = clean_dataframe(pd.read_csv(csv_path))
CleanCall ==
    /\ call.fn = "clean_dataframe"
    /\ ~call.done
    /\ call' = [call EXCEPT
                   !.done = TRUE,
                   !.raised = CleanRaises(call.arg),
                   !.ret = IF CleanRaises(call.arg) THEN <<>>
                           ELSE clean_dataframe(call.arg)]
    /\ UNCHANGED <<refresh_status, response, clock, run, db, csv, schema_file,
                   etl_summary, faults, derived>>

InitClean ==
    /\ InitCommon
    /\ schema_file = "ok"
    /\ csv = [t \in Tables |-> MissingFile]
    /\ \E f \in Frames : call = [NoCall EXCEPT !.fn = "clean_dataframe", !.arg = f]

NextClean == CleanCall

SpecClean == InitClean /\ [][NextClean]_vars

---------------------------------------------------------------------------
(* The anomaly engine (src/models/anomalies.py).  A metric history is a    *)
(* sequence of observations [date, value]; the values of the model are     *)
(* integers, so the mean and the standard deviation are kept as exact      *)
(* rationals and a score as the rational square of |value - mean| / std.   *)

MaxSeries == 4
MaxAnomalies == 4

Obs(d, v) == [date |-> d, value |-> v]

RECURSIVE SumValues(_)
SumValues(df) == IF df = <<>> THEN 0 ELSE Head(df).value + SumValues(Tail(df))

\* Series.mean(): sum / count
Mean(df) == [num |-> SumValues(df), den |-> Len(df)]

\* (count * value - sum)^2, that is count^2 * (value - mean)^2
SqDev(df, sum, i) == (Len(df) * df[i].value - sum) * (Len(df) * df[i].value - sum)

RECURSIVE SumSqDevTo(_, _, _)
SumSqDevTo(df, sum, i) ==
    IF i = 0 THEN 0 ELSE SqDev(df, sum, i) + SumSqDevTo(df, sum, i - 1)

\* Series.std() is the sample standard deviation (ddof = 1): NaN for fewer
\* than two values, 0 when they are all equal.  sq is the sum of the squared
\* deviations (times count^2).
Std(df, sq) ==
    IF Len(df) < 2 THEN "nan"
    ELSE IF sq = 0 THEN "zero"
    ELSE "positive"

ScoreNaN == [kind |-> "nan", sq_num |-> 0, sq_den |-> 1]
Score(n, d) == [kind |-> "number", sq_num |-> n, sq_den |-> d]

\* np.abs((df[column] - mean) / std) for row i, when std is not 0
AbsZ(df, sum, sq, i) ==
    IF Std(df, sq) = "nan" THEN ScoreNaN
    ELSE Score(SqDev(df, sum, i) * (Len(df) - 1), sq)

\* A threshold is the rational p / q; q = 0 stands for None.
Threshold(p, q) == [p |-> p, q |-> q]
NoThreshold == Threshold(0, 0)
z_score_threshold == Threshold(3, 1)

\* z_score > threshold; a comparison with NaN is False.
Exceeds(z, t) ==
    /\ z.kind = "number"
    /\ \/ t.p < 0
       \/ z.sq_num * t.q * t.q > t.p * t.p * z.sq_den

\* z_score >= threshold
ExceedsOrEquals(z, t) ==
    /\ z.kind = "number"
    /\ \/ t.p <= 0
       \/ z.sq_num * t.q * t.q >= t.p * t.p * z.sq_den

\* detect_zscore_anomalies with >= in place of >
ZScoreFlagsAtThreshold(df, threshold) ==
    LET t == IF threshold = NoThreshold THEN z_score_threshold ELSE threshold
        sum == SumValues(df)
        sq == SumSqDevTo(df, sum, Len(df))
        std == Std(df, sq)
    IN  [i \in 1..Len(df) |->
            [date |-> df[i].date, value |-> df[i].value,
             z_score |-> IF std = "zero" THEN Score(0, 1) ELSE AbsZ(df, sum, sq, i),
             is_anomaly |-> IF std = "zero" THEN FALSE
                            ELSE ExceedsOrEquals(AbsZ(df, sum, sq, i), t),
             expected_value |-> Mean(df), detection_method |-> "z-score"]]

detect_zscore_anomalies(df, threshold) ==
    LET t == IF threshold = NoThreshold THEN z_score_threshold ELSE threshold
        sum == SumValues(df)
        sq == SumSqDevTo(df, sum, Len(df))
        std == Std(df, sq)
    IN  [i \in 1..Len(df) |->
            [date |-> df[i].date, value |-> df[i].value,
             z_score |-> IF std = "zero" THEN Score(0, 1) ELSE AbsZ(df, sum, sq, i),
             is_anomaly |-> IF std = "zero" THEN FALSE
                            ELSE Exceeds(AbsZ(df, sum, sq, i), t),
             expected_value |-> Mean(df), detection_method |-> "z-score"]]

\* The series and thresholds detect_zscore_anomalies is applied to.
SeriesValues == {10, 20, 50}
SeriesOf(vals) == [i \in 1..Len(vals) |-> Obs(i, vals[i])]
AllSeries == {SeriesOf(v) : v \in UNION {[1..m -> SeriesValues] : m \in 0..MaxSeries}}
Thresholds ==
    {NoThreshold, Threshold(-1, 1), Threshold(0, 1), Threshold(1, 2),
     Threshold(1, 1), Threshold(3, 2)}

ZScoreCall ==
    /\ call.fn = "detect_zscore_anomalies"
    /\ ~call.done
    /\ call' = [call EXCEPT
                   !.done = TRUE,
                   !.ret = detect_zscore_anomalies(call.arg.df, call.arg.threshold)]
    /\ UNCHANGED <<refresh_status, response, clock, run, db, csv, schema_file,
                   etl_summary, faults, derived>>

\* execute_query: pd.read_sql_query raises when the table does not exist.
QueryRaises(t) == ~db[t].exists

RECURSIVE InsertByDate(_, _)
InsertByDate(x, s) ==
    IF s = <<>> THEN <<x>>
    ELSE IF x.date < Head(s).date THEN <<x>> \o s
    ELSE <<Head(s)>> \o InsertByDate(x, Tail(s))

\* ORDER BY date; a NULL date (NaT) sorts first.
RECURSIVE OrderByDate(_)
OrderByDate(s) ==
    IF s = <<>> THEN <<>>
    ELSE InsertByDate(s[Len(s)], OrderByDate(SubSeq(s, 1, Len(s) - 1)))

\* SELECT date, metric FROM table WHERE metric IS NOT NULL ORDER BY date.
\* The tables of the model have one numeric column, num, and every metric
\* column of a table reads it.
MetricHistory(t) ==
    LET kept == SelectSeq(db[t].rows, LAMBDA r : r.num # NaN)
    IN  OrderByDate([i \in 1..Len(kept) |-> Obs(kept[i].date, kept[i].num)])

\* detect_metric_anomalies(table, column, method='z-score')
detect_metric_anomalies(t, column) ==
    LET df == MetricHistory(t)
        flagged == SelectSeq(detect_zscore_anomalies(df, NoThreshold),
                             LAMBDA r : r.is_anomaly)
    IN  IF df = <<>> THEN <<>>
        ELSE [i \in 1..Len(flagged) |->
                 [date |-> flagged[i].date, value |-> flagged[i].value,
                  z_score |-> flagged[i].z_score,
                  expected_value |-> flagged[i].expected_value,
                  detection_method |-> flagged[i].detection_method,
                  metric_name |-> column, table_name |-> t]]

Metric(t, c, n) == [table |-> t, column |-> c, name |-> n]

metrics_config ==
    << Metric("finance", "revenue", "Revenue"),
       Metric("finance", "expenses", "Expenses"),
       Metric("finance", "profit", "Profit"),
       Metric("finance", "profit_margin_pct", "Profit Margin"),
       Metric("operations", "avg_processing_time_hours", "Processing Time"),
       Metric("operations", "ontime_delivery_pct", "On-Time Delivery"),
       Metric("hr", "turnover_rate_pct", "Turnover Rate"),
       Metric("hr", "absenteeism_rate_pct", "Absenteeism Rate") >>

MetricNames == {metrics_config[i].name : i \in 1..Len(metrics_config)}

\* The row insert_anomaly writes for one anomaly.
AnomalyRecord(a, metric_name) ==
    [date |-> a.date, metric_name |-> metric_name, metric_value |-> a.value,
     expected_value |-> a.expected_value, anomaly_score |-> a.z_score,
     detection_method |-> a.detection_method]

\* _save_anomalies_to_db: one insert_anomaly per row, each in its own
\* try/except; lost is the set of positions whose insert raised.
SaveAnomalies(table, anomalies, metric_name, lost) ==
    LET rec == [i \in 1..Len(anomalies) |-> AnomalyRecord(anomalies[i], metric_name)]
        RECURSIVE F(_)
        F(i) == IF i > Len(rec) THEN <<>>
                ELSE IF i \in lost THEN F(i + 1) ELSE <<rec[i]>> \o F(i + 1)
    IN  table \o F(1)

\* The locals of detect_all_anomalies.  scanned, errors and unsaved record
\* what happened; the code does not read them.
DetectLocals ==
    [idx |-> 1, results |-> [n \in MetricNames |-> <<>>],
     scanned |-> {}, errors |-> {}, unsaved |-> {}]

\* a loop whose try/except encloses the loop: the first error ends it
ScanResultStopsAtFailure(r, m, anomalies, raised, lost) ==
    [r EXCEPT !.idx = IF raised THEN Len(metrics_config) + 1 ELSE @ + 1,
              !.results[m.name] = IF raised THEN @ ELSE anomalies,
              !.scanned = @ \cup {m.name},
              !.errors = IF raised THEN @ \cup {m.name} ELSE @,
              !.unsaved = IF lost = {} THEN @ ELSE @ \cup {m.name}]

\* detect_all_anomalies, the body of the loop for metric m: anomalies is what
\* detect_metric_anomalies returned, raised whether it raised.
ScanResult(r, m, anomalies, raised, lost) ==
    [r EXCEPT !.idx = @ + 1,
              !.results[m.name] = IF raised THEN @ ELSE anomalies,
              !.scanned = @ \cup {m.name},
              !.errors = IF raised THEN @ \cup {m.name} ELSE @,
              !.unsaved = IF lost = {} THEN @ ELSE @ \cup {m.name}]

\* One iteration of the loop of detect_all_anomalies; the last one returns.
ScanMetric ==
    /\ call.fn = "detect_all_anomalies"
    /\ ~call.done
    /\ LET m == metrics_config[call.ret.idx]
           finish(r) == [call EXCEPT !.ret = r,
                                     !.done = r.idx > Len(metrics_config)]
       IN  \/ /\ QueryRaises(m.table)
              /\ call' = finish(ScanResult(call.ret, m, <<>>, TRUE, {}))
              /\ UNCHANGED <<derived, faults>>
           \/ /\ ~QueryRaises(m.table)
              /\ CanFault
              /\ faults' = faults + 1
              /\ call' = finish(ScanResult(call.ret, m, <<>>, TRUE, {}))
              /\ UNCHANGED derived
           \/ /\ ~QueryRaises(m.table)
              /\ LET anomalies == detect_metric_anomalies(m.table, m.column)
                 IN  \E lost \in SUBSET (1..Len(anomalies)) :
                        /\ Cardinality(lost) <= 1
                        /\ lost # {} => CanFault
                        /\ faults' = faults + Cardinality(lost)
                        /\ derived' = [derived EXCEPT !.anomalies =
                                          SaveAnomalies(@, anomalies, m.name, lost)]
                        /\ call' = finish(ScanResult(call.ret, m, anomalies, FALSE, lost))
    /\ UNCHANGED <<refresh_status, response, clock, run, db, csv, schema_file,
                   etl_summary>>

\* An anomaly frame handed to generate_anomaly_insights: the rows, and
\* whether the frame has the column expected_value.
Rational(n, d) == [num |-> n, den |-> d]

Narrative(kind, a, direction, deviation) ==
    [kind |-> kind, date |-> a.date, value |-> a.value,
     direction |-> direction, deviation |-> deviation]

Abs(x) == IF x < 0 THEN 0 - x ELSE x

\* The text built for one row: the deviation in percent is
\* (value - expected) / expected * 100, or 0 when expected is 0.
NarrativeOf(a, has_expected) ==
    IF has_expected
    THEN LET e == a.expected_value
         IN  Narrative("deviation", a,
                 IF a.value * e.den > e.num THEN "higher" ELSE "lower",
                 IF e.num = 0 THEN Rational(0, 1)
                 ELSE Rational(Abs(a.value * e.den - e.num) * 100, Abs(e.num)))
    ELSE Narrative("unusual", a, "", Rational(0, 1))

DatesOf(rows) == {rows[i].date : i \in 1..Len(rows)}

\* DataFrame.head(n): the first n rows
HeadRows(s, n) == SubSeq(s, 1, IF Len(s) < n THEN Len(s) ELSE n)

\* DataFrame.tail(n): the last n rows
TailRows(s, n) == SubSeq(s, IF Len(s) < n THEN 1 ELSE Len(s) - n + 1, Len(s))

\* pd.to_datetime(NaT).strftime raises ValueError
AnomalyInsightsRaises(frame) ==
    \E i \in 1..Len(HeadRows(frame.rows, 3)) : frame.rows[i].date = NaT

generate_anomaly_insights(frame) ==
    LET top == HeadRows(frame.rows, 3)
    IN  [i \in 1..Len(top) |-> NarrativeOf(top[i], frame.has_expected)]

AnomalyInsightsCall ==
    /\ call.fn = "generate_anomaly_insights"
    /\ ~call.done
    /\ call' = [call EXCEPT
                   !.done = TRUE,
                   !.raised = AnomalyInsightsRaises(call.arg),
                   !.ret = IF AnomalyInsightsRaises(call.arg) THEN <<>>
                           ELSE generate_anomaly_insights(call.arg)]
    /\ UNCHANGED <<refresh_status, response, clock, run, db, csv, schema_file,
                   etl_summary, faults, derived>>

\* Fact tables the anomaly engine may find: no table, no row, a constant
\* history, and a history of eleven months whose last value is an outlier
\* (with a row whose metric is NULL, and rows out of date order).
ConstantTable ==
    [exists |-> TRUE,
     rows |-> << Row(1, 10, "East"), Row(2, 10, "East"), Row(3, 10, "East") >>]
OutlierTable ==
    [exists |-> TRUE,
     rows |-> << Row(11, 100, "East"), Row(1, 10, "East"), Row(2, 10, "East"),
                 Row(3, 10, "East"), Row(4, 10, "East"), Row(5, 10, "East"),
                 Row(6, 10, "East"), Row(7, 10, "East"), Row(8, 10, "East"),
                 Row(9, 10, "East"), Row(10, 10, "East"), Row(12, NaN, "East") >>]
EmptyTable == [exists |-> TRUE, rows |-> <<>>]
MetricTables == {AbsentTable, EmptyTable, ConstantTable, OutlierTable}

RECURSIVE Ascending(_)
Ascending(S) ==
    IF S = {} THEN <<>>
    ELSE LET x == CHOOSE y \in S : \A z \in S : y <= z
         IN  <<x>> \o Ascending(S \ {x})

\* Date-ordered anomaly frames of at most MaxAnomalies rows; the date 0 is
\* NaT.  Every row of a frame has the mean of its series as expected value.
AnomalyDates == 0..(MaxAnomalies + 1)
AnomalyValues == {0, 50}
AnomalyFrame(h, e, S, v) ==
    [has_expected |-> h,
     rows |-> [i \in 1..Cardinality(S) |->
                  [date |-> Ascending(S)[i], value |-> v[i],
                   expected_value |-> Rational(e, 1)]]]

InitAnomaly ==
    /\ refresh_status = InitStatus
    /\ response = NoResponse
    /\ clock = 0
    /\ run = [k \in Runners |-> IdleRun]
    /\ etl_summary = NoSummary
    /\ faults = 0
    /\ derived = NoDerived
    /\ schema_file = "ok"
    /\ csv = [t \in Tables |-> MissingFile]
    /\ \/ /\ db = [t \in Tables |-> EmptyTable]
          /\ \E df \in AllSeries, th \in Thresholds :
                call = [NoCall EXCEPT !.fn = "detect_zscore_anomalies",
                                      !.arg = [df |-> df, threshold |-> th]]
       \/ /\ db = [t \in Tables |-> EmptyTable]
          /\ \E h \in BOOLEAN, e \in {0, 20}, S \in SUBSET AnomalyDates :
                /\ Cardinality(S) <= MaxAnomalies
                /\ \E v \in [1..Cardinality(S) -> AnomalyValues] :
                      call = [NoCall EXCEPT !.fn = "generate_anomaly_insights",
                                            !.arg = AnomalyFrame(h, e, S, v)]
       \/ /\ \E f, o, h \in MetricTables :
                db = [t \in Tables |->
                         CASE t = "finance" -> f
                           [] t = "operations" -> o
                           [] t = "hr" -> h
                           [] OTHER -> EmptyTable]
          /\ call = [NoCall EXCEPT !.fn = "detect_all_anomalies", !.ret = DetectLocals]

NextAnomaly ==
    \/ ZScoreCall
    \/ ScanMetric
    \/ AnomalyInsightsCall

SpecAnomaly == InitAnomaly /\ [][NextAnomaly]_vars

---------------------------------------------------------------------------
(* The insight engine (src/models/insights.py).  The rows of the fact      *)
(* tables carry the columns an analyzer reads; their values are integers   *)
(* and what the analyzers compute from them (a growth rate, a mean, a      *)
(* percentage) is kept as an exact rational, or as inf, -inf or NaN where  *)
(* the floating-point division of the code gives these.                    *)

MaxFinance == 3
MaxSales == 3
MaxOperations == 7
MaxTickets == 2
MaxHr == 2

\* KPI_THRESHOLDS
thresholds ==
    [revenue_growth |-> [good |-> 5, warning |-> 0, critical |-> -5],
     profit_margin |-> [good |-> 20, warning |-> 10, critical |-> 5],
     employee_turnover |-> [good |-> 10, warning |-> 15, critical |-> 20],
     ticket_resolution_hours |-> [good |-> 24, warning |-> 48, critical |-> 72],
     ontime_delivery |-> [good |-> 95, warning |-> 90, critical |-> 85]]

Float(kind, n, d) == [kind |-> kind, num |-> n, den |-> d]

\* n / d on numpy numbers: a division by zero gives inf, -inf or NaN and a
\* warning, it does not raise.
Quot(n, d) ==
    IF d = 0
    THEN IF n > 0 THEN Float("inf", 0, 1)
         ELSE IF n < 0 THEN Float("-inf", 0, 1)
         ELSE Float("nan", 0, 1)
    ELSE IF d < 0 THEN Float("number", 0 - n, 0 - d)
    ELSE Float("number", n, d)

\* x > k and x < k for an integer k; a comparison with NaN is False.
Greater(x, k) == x.kind = "inf" \/ (x.kind = "number" /\ x.num > k * x.den)
Less(x, k) == x.kind = "-inf" \/ (x.kind = "number" /\ x.num < k * x.den)

Insight(date, category, text, severity, metric_value) ==
    [date |-> date, category |-> category, insight_text |-> text,
     severity |-> severity, metric_value |-> metric_value]

\* ORDER BY date DESC LIMIT 6, then sort_values('date'): the 6 latest rows
\* in ascending order of date.
Latest6(rows) == TailRows(OrderByDate(rows), 6)

\* date >= date('now', '-3 months'), with dates counted in months
InWindow(rows, now) == SelectSeq(rows, LAMBDA r : r.date >= now - 3)

MaxDate(rows) == CHOOSE d \in DatesOf(rows) : \A e \in DatesOf(rows) : e <= d

RECURSIVE SumColumn(_, _)
SumColumn(rows, c) ==
    IF rows = <<>> THEN 0 ELSE Head(rows)[c] + SumColumn(Tail(rows), c)

\* the growth insight with the test for warning before the test for critical
RevenueInsightWarningFirst(date, growth_rate) ==
    IF Greater(growth_rate, thresholds.revenue_growth.good)
    THEN Insight(date, "finance", "revenue accelerated", "info", growth_rate)
    ELSE IF Less(growth_rate, thresholds.revenue_growth.warning)
    THEN Insight(date, "finance", "revenue slowed", "warning", growth_rate)
    ELSE IF Less(growth_rate, thresholds.revenue_growth.critical)
    THEN Insight(date, "finance", "revenue declined", "critical", growth_rate)
    ELSE Insight(date, "finance", "revenue steady", "info", growth_rate)

\* insights.py:57-90: the insight for the month-over-month growth rate
RevenueInsight(date, growth_rate) ==
    IF Greater(growth_rate, thresholds.revenue_growth.good)
    THEN Insight(date, "finance", "revenue accelerated", "info", growth_rate)
    ELSE IF Less(growth_rate, thresholds.revenue_growth.critical)
    THEN Insight(date, "finance", "revenue declined", "critical", growth_rate)
    ELSE IF Less(growth_rate, thresholds.revenue_growth.warning)
    THEN Insight(date, "finance", "revenue slowed", "warning", growth_rate)
    ELSE Insight(date, "finance", "revenue steady", "info", growth_rate)

\* insights.py:92-116: the insight for the latest profit margin, if any
MarginInsights(date, latest_margin) ==
    IF latest_margin < thresholds.profit_margin.critical
    THEN << Insight(date, "finance", "margin critically low", "critical",
                    Quot(latest_margin, 1)) >>
    ELSE IF latest_margin > thresholds.profit_margin.good
    THEN << Insight(date, "finance", "margin strong", "info", Quot(latest_margin, 1)) >>
    ELSE <<>>

\* analyze_revenue_trends that needs a non-zero previous revenue
RevenueTrendsSkipsZero(rows) ==
    LET df == Latest6(rows)
        n == Len(df)
    IN  IF n < 2 \/ df[n - 1].revenue = 0 THEN <<>>
        ELSE << RevenueInsight(df[n].date,
                    Quot((df[n].revenue - df[n - 1].revenue) * 100, df[n - 1].revenue)) >>
             \o MarginInsights(df[n].date, df[n].profit_margin_pct)

analyze_revenue_trends(rows) ==
    LET df == Latest6(rows)
        n == Len(df)
    IN  IF n < 2 THEN <<>>
        ELSE << RevenueInsight(df[n].date,
                    Quot((df[n].revenue - df[n - 1].revenue) * 100, df[n - 1].revenue)) >>
             \o MarginInsights(df[n].date, df[n].profit_margin_pct)

\* GROUP BY date, region of the rows of one date: one group per region that
\* has a row, in the order of Regions, with SUM(units_sold).
Regions == <<"East", "West">>

RegionGroups(rows, date) ==
    LET of(g) == SelectSeq(rows, LAMBDA r : r.date = date /\ r.region = g)
        RECURSIVE F(_)
        F(i) == IF i > Len(Regions) THEN <<>>
                ELSE IF of(Regions[i]) = <<>> THEN F(i + 1)
                ELSE << [region |-> Regions[i],
                         total_units |-> SumColumn(of(Regions[i]), "units_sold")] >>
                     \o F(i + 1)
    IN  F(1)

\* Series.idxmax() and idxmin(): the first row with the largest, smallest value
IdxMax(groups) ==
    CHOOSE i \in 1..Len(groups) :
        /\ \A j \in 1..Len(groups) : groups[j].total_units <= groups[i].total_units
        /\ \A j \in 1..(i - 1) : groups[j].total_units < groups[i].total_units

IdxMin(groups) ==
    CHOOSE i \in 1..Len(groups) :
        /\ \A j \in 1..Len(groups) : groups[j].total_units >= groups[i].total_units
        /\ \A j \in 1..(i - 1) : groups[j].total_units > groups[i].total_units

\* analyze_sales_performance that compares the worst region with the best
\* region's whole volume
SalesWarnsBelowBest(rows, now) ==
    LET df == InWindow(rows, now)
        latest_data == RegionGroups(df, MaxDate(df))
        best_region == latest_data[IdxMax(latest_data)]
        worst_region == latest_data[IdxMin(latest_data)]
    IN  IF df = <<>> THEN <<>>
        ELSE << Insight(MaxDate(df), "sales", "best region " \o best_region.region,
                        "info", Quot(best_region.total_units, 1)) >>
             \o IF worst_region.total_units < best_region.total_units
                THEN << Insight(MaxDate(df), "sales",
                                "underperforming region " \o worst_region.region,
                                "warning", Quot(worst_region.total_units, 1)) >>
                ELSE <<>>

\* worst < best * 0.7 is compared as 10 * worst < 7 * best
analyze_sales_performance(rows, now) ==
    LET df == InWindow(rows, now)
        latest_data == RegionGroups(df, MaxDate(df))
        best_region == latest_data[IdxMax(latest_data)]
        worst_region == latest_data[IdxMin(latest_data)]
    IN  IF df = <<>> THEN <<>>
        ELSE << Insight(MaxDate(df), "sales", "best region " \o best_region.region,
                        "info", Quot(best_region.total_units, 1)) >>
             \o IF 10 * worst_region.total_units < 7 * best_region.total_units
                THEN << Insight(MaxDate(df), "sales",
                                "underperforming region " \o worst_region.region,
                                "warning", Quot(worst_region.total_units, 1)) >>
                ELSE <<>>

\* insights.py:202-226: the insight for the latest on-time delivery, if any
OntimeInsights(date, ontime) ==
    IF ontime < thresholds.ontime_delivery.critical
    THEN << Insight(date, "operations", "on-time delivery dropped", "critical",
                    Quot(ontime, 1)) >>
    ELSE IF ontime > thresholds.ontime_delivery.good
    THEN << Insight(date, "operations", "on-time delivery excellent", "info",
                    Quot(ontime, 1)) >>
    ELSE <<>>

\* the processing-time rule comparing the latest row with the earliest row
ImprovementOfEnds(df) ==
    LET recent == df[Len(df)].avg_processing_time_hours
        older == df[1].avg_processing_time_hours
    IN  Quot((older - recent) * 100, older)

\* insights.py:230-232: the means of the last 3 and the first 3 rows have the
\* denominator 3, so improvement = (older - recent) / older * 100 is
\* (sum of the first 3 - sum of the last 3) * 100 / sum of the first 3.
Improvement(df) ==
    LET recent == SumColumn(TailRows(df, 3), "avg_processing_time_hours")
        older == SumColumn(HeadRows(df, 3), "avg_processing_time_hours")
    IN  Quot((older - recent) * 100, older)

\* insights.py:228-244
ProcessingInsights(df) ==
    IF Len(df) >= 3 /\ Greater(Improvement(df), 10)
    THEN << Insight(df[Len(df)].date, "operations", "processing time improved",
                    "info", Improvement(df)) >>
    ELSE <<>>

analyze_operations_efficiency(rows) ==
    LET df == Latest6(rows)
    IN  IF df = <<>> THEN <<>>
        ELSE OntimeInsights(df[Len(df)].date, df[Len(df)].ontime_delivery_pct)
             \o ProcessingInsights(df)

\* GROUP BY date, priority ORDER BY date DESC: one group per date and
\* priority that has a row, latest date first, with SUM(tickets_opened),
\* SUM(tickets_closed) and AVG(avg_resolution_time_hours).
Priorities == <<"Critical", "Low">>

TicketGroups(rows) ==
    LET of(d, p) == SelectSeq(rows, LAMBDA r : r.date = d /\ r.priority = p)
        RECURSIVE ByPriority(_, _)
        ByPriority(d, i) ==
            IF i > Len(Priorities) THEN <<>>
            ELSE IF of(d, Priorities[i]) = <<>> THEN ByPriority(d, i + 1)
            ELSE << [date |-> d, priority |-> Priorities[i],
                     total_opened |-> SumColumn(of(d, Priorities[i]), "tickets_opened"),
                     total_closed |-> SumColumn(of(d, Priorities[i]), "tickets_closed"),
                     avg_resolution |->
                         Quot(SumColumn(of(d, Priorities[i]), "avg_resolution_time_hours"),
                              Len(of(d, Priorities[i])))] >>
                 \o ByPriority(d, i + 1)
        RECURSIVE ByDate(_)
        ByDate(D) ==
            IF D = {} THEN <<>>
            ELSE LET d == CHOOSE x \in D : \A y \in D : y <= x
                 IN  ByPriority(d, 1) \o ByDate(D \ {d})
    IN  ByDate(DatesOf(rows))

\* insights.py:339-366: the latest group of critical tickets
CriticalTicketInsights(df) ==
    LET critical_df == SelectSeq(df, LAMBDA g : g.priority = "Critical")
        latest_critical == critical_df[1]
    IN  IF critical_df = <<>> THEN <<>>
        ELSE IF Greater(latest_critical.avg_resolution,
                        thresholds.ticket_resolution_hours.critical)
        THEN << Insight(latest_critical.date, "it", "critical resolution slow",
                        "warning", latest_critical.avg_resolution) >>
        ELSE IF Less(latest_critical.avg_resolution,
                     thresholds.ticket_resolution_hours.good)
        THEN << Insight(latest_critical.date, "it", "critical resolution excellent",
                        "info", latest_critical.avg_resolution) >>
        ELSE <<>>

\* the backlog rule with <= in place of <
BacklogAtNinety(df) ==
    LET latest_all == SelectSeq(df, LAMBDA g : g.date = MaxDate(df))
        total_opened == SumColumn(latest_all, "total_opened")
        total_closed == SumColumn(latest_all, "total_closed")
    IN  IF 10 * total_closed <= 9 * total_opened
        THEN << Insight(MaxDate(df), "it", "backlog growing", "warning",
                        Quot((total_opened - total_closed) * 100, total_opened)) >>
        ELSE <<>>

\* insights.py:368-385; total_closed < total_opened * 0.9 is compared as
\* 10 * total_closed < 9 * total_opened
BacklogInsights(df) ==
    LET latest_all == SelectSeq(df, LAMBDA g : g.date = MaxDate(df))
        total_opened == SumColumn(latest_all, "total_opened")
        total_closed == SumColumn(latest_all, "total_closed")
    IN  IF 10 * total_closed < 9 * total_opened
        THEN << Insight(MaxDate(df), "it", "backlog growing", "warning",
                        Quot((total_opened - total_closed) * 100, total_opened)) >>
        ELSE <<>>

analyze_it_performance(rows, now) ==
    LET df == TicketGroups(InWindow(rows, now))
    IN  IF df = <<>> THEN <<>>
        ELSE CriticalTicketInsights(df) \o BacklogInsights(df)

\* A metric value that is a numpy int64 (a difference of two values of an
\* integer column), where the other metric values are Python floats.
Int64(n) == [kind |-> "int64", num |-> n, den |-> 1]

\* insights.py:272-296: the insight for the latest turnover rate, if any
TurnoverInsights(date, turnover) ==
    IF turnover > thresholds.employee_turnover.critical
    THEN << Insight(date, "hr", "turnover critical", "critical", Quot(turnover, 1)) >>
    ELSE IF turnover < thresholds.employee_turnover.good
    THEN << Insight(date, "hr", "turnover healthy", "info", Quot(turnover, 1)) >>
    ELSE <<>>

\* insights.py:298-311: growth = latest employee_count - the first of the
\* window; employee_count is an integer column, so growth is an int64.
GrowthInsights(df) ==
    LET growth == df[Len(df)].employee_count - df[1].employee_count
    IN  IF Len(df) >= 2 /\ growth > 10
        THEN << Insight(df[Len(df)].date, "hr", "team grew", "info", Int64(growth)) >>
        ELSE <<>>

\* analyze_hr_metrics that files its insights under another category
HrMetricsAsPeople(rows) ==
    LET df == Latest6(rows)
        out == IF df = <<>> THEN <<>>
               ELSE TurnoverInsights(df[Len(df)].date, df[Len(df)].turnover_rate_pct)
                    \o GrowthInsights(df)
    IN  [i \in 1..Len(out) |-> [out[i] EXCEPT !.category = "people"]]

analyze_hr_metrics(rows) ==
    LET df == Latest6(rows)
    IN  IF df = <<>> THEN <<>>
        ELSE TurnoverInsights(df[Len(df)].date, df[Len(df)].turnover_rate_pct)
             \o GrowthInsights(df)

\* One analyzer applied to the fact table it reads.
AnalyzerCall(fn, table, result) ==
    /\ call.fn = fn
    /\ ~call.done
    /\ call' = [call EXCEPT !.done = TRUE, !.ret = result]
    /\ UNCHANGED <<refresh_status, response, clock, run, db, csv, schema_file,
                   etl_summary, faults, derived>>

FinanceCall ==
    AnalyzerCall("analyze_revenue_trends", "finance",
                 analyze_revenue_trends(db["finance"].rows))

SalesCall ==
    AnalyzerCall("analyze_sales_performance", "sales",
                 analyze_sales_performance(db["sales"].rows, call.arg.now))

OperationsCall ==
    AnalyzerCall("analyze_operations_efficiency", "operations",
                 analyze_operations_efficiency(db["operations"].rows))

ItCall ==
    AnalyzerCall("analyze_it_performance", "it_tickets",
                 analyze_it_performance(db["it_tickets"].rows, call.arg.now))

HrCall ==
    AnalyzerCall("analyze_hr_metrics", "hr", analyze_hr_metrics(db["hr"].rows))

\* The fact tables the analyzers are applied to.  A table holds its rows
\* latest first or in any order; the dates of finance and operations are one
\* per month.
Today == 6

FinanceRows ==
    {[date |-> 0, revenue |-> r, profit_margin_pct |-> m] :
        r \in {0, 93, 95, 100, 105, 106}, m \in {4, 15, 25}}
FinanceTable(f) == [i \in 1..Len(f) |-> [f[i] EXCEPT !.date = Len(f) + 1 - i]]

SalesRows ==
    {[date |-> d, region |-> g, units_sold |-> u, conversion_rate_pct |-> 5] :
        d \in {1, 4, 5}, g \in {"East", "West"}, u \in {3, 7, 10}}

ProcessingTimes == {0, 80, 90, 100}
OperationsTable(o, p) ==
    [i \in 1..Len(p) |-> [date |-> i, ontime_delivery_pct |-> o,
                          avg_processing_time_hours |-> p[i], defect_rate_pct |-> 1]]

TicketCounts == {<<0, 0>>, <<100, 85>>, <<100, 90>>, <<100, 95>>, <<50, 40>>, <<50, 45>>}
TicketRows ==
    {[date |-> d, priority |-> p, tickets_opened |-> c[1], tickets_closed |-> c[2],
      avg_resolution_time_hours |-> h] :
        d \in {1, 5}, p \in {"Critical", "Low"}, c \in TicketCounts, h \in {20, 80}}

HrRows ==
    {[date |-> 0, employee_count |-> c, turnover_rate_pct |-> t] :
        c \in {250, 260, 261}, t \in {5, 10, 20, 25}}
HrTable(f) == [i \in 1..Len(f) |-> [f[i] EXCEPT !.date = i]]

InitInsight ==
    /\ refresh_status = InitStatus
    /\ response = NoResponse
    /\ clock = 0
    /\ run = [k \in Runners |-> IdleRun]
    /\ etl_summary = NoSummary
    /\ faults = 0
    /\ derived = NoDerived
    /\ schema_file = "ok"
    /\ csv = [t \in Tables |-> MissingFile]
    /\ \E rows \in [Tables -> {<<>>}] :
          \/ /\ \E n \in 0..MaxFinance : \E f \in [1..n -> FinanceRows] :
                   db = [t \in Tables |->
                            [exists |-> TRUE,
                             rows |-> IF t = "finance" THEN FinanceTable(f) ELSE rows[t]]]
             /\ call = [NoCall EXCEPT !.fn = "analyze_revenue_trends",
                                      !.arg = [now |-> Today]]
          \/ /\ \E n \in 0..MaxSales : \E f \in [1..n -> SalesRows] :
                   db = [t \in Tables |->
                            [exists |-> TRUE,
                             rows |-> IF t = "sales" THEN f ELSE rows[t]]]
             /\ call = [NoCall EXCEPT !.fn = "analyze_sales_performance",
                                      !.arg = [now |-> Today]]
          \/ /\ \E n \in 0..MaxOperations : \E p \in [1..n -> ProcessingTimes] :
                   \E o \in {80, 96} :
                      db = [t \in Tables |->
                               [exists |-> TRUE,
                                rows |-> IF t = "operations" THEN OperationsTable(o, p)
                                         ELSE rows[t]]]
             /\ call = [NoCall EXCEPT !.fn = "analyze_operations_efficiency",
                                      !.arg = [now |-> Today]]
          \/ /\ \E n \in 0..MaxTickets : \E f \in [1..n -> TicketRows] :
                   db = [t \in Tables |->
                            [exists |-> TRUE,
                             rows |-> IF t = "it_tickets" THEN f ELSE rows[t]]]
             /\ call = [NoCall EXCEPT !.fn = "analyze_it_performance",
                                      !.arg = [now |-> Today]]
          \/ /\ \E n \in 0..MaxHr : \E f \in [1..n -> HrRows] :
                   db = [t \in Tables |->
                            [exists |-> TRUE,
                             rows |-> IF t = "hr" THEN HrTable(f) ELSE rows[t]]]
             /\ call = [NoCall EXCEPT !.fn = "analyze_hr_metrics",
                                      !.arg = [now |-> Today]]

NextInsight ==
    \/ FinanceCall
    \/ SalesCall
    \/ OperationsCall
    \/ ItCall
    \/ HrCall

SpecInsight == InitInsight /\ [][NextInsight]_vars

---------------------------------------------------------------------------
(* The three engines that write the derived tables, run one after another  *)
(* from the command line on a store whose fact tables hold a few rows:     *)
(* generate_all_insights, detect_all_anomalies and                         *)
(* forecast_all_key_metrics, with runs of the ETL between them.            *)

MaxCalls == 2

\* The columns an analyzer selects from the table it reads.
insight_functions ==
    << [domain |-> "Finance", table |-> "finance",
        columns |-> {"date", "revenue", "profit_margin_pct"}],
       [domain |-> "Sales", table |-> "sales",
        columns |-> {"date", "region", "units_sold"}],
       [domain |-> "Operations", table |-> "operations",
        columns |-> {"date", "ontime_delivery_pct", "avg_processing_time_hours"}],
       [domain |-> "HR", table |-> "hr",
        columns |-> {"date", "employee_count", "turnover_rate_pct"}],
       [domain |-> "IT", table |-> "it_tickets",
        columns |-> {"date", "priority", "tickets_opened", "tickets_closed",
                     "avg_resolution_time_hours"}] >>

Domains == {insight_functions[i].domain : i \in 1..Len(insight_functions)}

\* execute_query raises when the table does not exist or lacks a column the
\* query selects.
SelectRaises(t, columns) ==
    \/ ~db[t].exists
    \/ \E i \in 1..Len(db[t].rows) : ~(columns \subseteq DOMAIN db[t].rows[i])

\* func() for the entry f of insight_functions
Analyze(f, now) ==
    CASE f.domain = "Finance" -> analyze_revenue_trends(db[f.table].rows)
      [] f.domain = "Sales" -> analyze_sales_performance(db[f.table].rows, now)
      [] f.domain = "Operations" -> analyze_operations_efficiency(db[f.table].rows)
      [] f.domain = "HR" -> analyze_hr_metrics(db[f.table].rows)
      [] f.domain = "IT" -> analyze_it_performance(db[f.table].rows, now)

RECURSIVE Concat(_)
Concat(ss) == IF ss = <<>> THEN <<>> ELSE Head(ss) \o Concat(Tail(ss))

\* insights.py:409-416: what each analyzer contributes to all_insights; the
\* analyzers of failing raise, as does one whose query raises.
Produced(now, failing) ==
    [i \in 1..Len(insight_functions) |->
        IF \/ SelectRaises(insight_functions[i].table, insight_functions[i].columns)
           \/ insight_functions[i].domain \in failing
        THEN <<>>
        ELSE Analyze(insight_functions[i], now)]

\* insert_insight that replaces the rows of the table
InsertInsightsReplaces(table, insights, lost) ==
    LET RECURSIVE F(_)
        F(i) == IF i > Len(insights) THEN <<>>
                ELSE IF i \in lost THEN F(i + 1) ELSE <<insights[i]>> \o F(i + 1)
    IN  F(1)

\* insights.py:418-423: one insert_insight per insight, each in its own
\* try/except; lost is the set of positions whose insert raised.
InsertInsights(table, insights, lost) ==
    LET RECURSIVE F(_)
        F(i) == IF i > Len(insights) THEN <<>>
                ELSE IF i \in lost THEN F(i + 1) ELSE <<insights[i]>> \o F(i + 1)
    IN  table \o F(1)

\* json.dump raises TypeError on a value that is not a Python int, float,
\* str, bool, None, list or dict: a numpy int64 is none of these (a numpy
\* float64 is a float).
JsonDumpRaises(insights) ==
    \E i \in 1..Len(insights) : insights[i].metric_value.kind = "int64"

\* insights.json after a successful _save_insights_to_json
Artifact(insights) ==
    [exists |-> TRUE, valid |-> TRUE, total_insights |-> Len(insights),
     insights |-> insights]

\* insights.json when json.dump raised: open(path, 'w') has emptied the file
\* and the encoder has written the text up to the value it rejected, which
\* is not a JSON document.
BrokenArtifact ==
    [exists |-> TRUE, valid |-> FALSE, total_insights |-> 0, insights |-> <<>>]

\* _save_insights_to_json: outcome "ok", "type_error" (json.dump raised) or
\* "open_failed" (the file could not be opened and is left as it was).
SaveInsightsToJson(old, insights, outcome) ==
    CASE outcome = "ok" -> Artifact(insights)
      [] outcome = "type_error" -> BrokenArtifact
      [] outcome = "open_failed" -> old

NoRuns == [insights |-> 0, anomalies |-> 0, forecasts |-> 0]

\* No engine and no ETL run is under way.
Quiet ==
    /\ call.fn = "none" \/ call.done
    /\ run[CLI].pc \in {"idle", "done", "aborted"}

\* generate_all_insights.  produced, errors, unsaved and export record what
\* happened; all_insights is self.insights, returned the value returned
\* (none when the export raised).
generate_all_insights ==
    /\ Quiet
    /\ clock < MaxCalls
    /\ clock' = clock + 1
    /\ \E failing \in SUBSET Domains, open_failed \in BOOLEAN :
          LET now == call.arg.now
              produced == Produced(now, failing)
              all_insights == Concat(produced)
              outcome == IF open_failed THEN "open_failed"
                         ELSE IF JsonDumpRaises(all_insights) THEN "type_error"
                         ELSE "ok"
          IN  \E lost \in SUBSET (1..Len(all_insights)) :
                 LET n == Cardinality(failing) + Cardinality(lost)
                          + (IF open_failed THEN 1 ELSE 0)
                 IN  /\ n <= 1
                     /\ n > 0 => CanFault
                     /\ \A i \in 1..Len(insight_functions) :
                           insight_functions[i].domain \in failing
                              => ~SelectRaises(insight_functions[i].table,
                                               insight_functions[i].columns)
                     /\ faults' = faults + n
                     /\ derived' =
                          [derived EXCEPT
                              !.insights = InsertInsights(@, all_insights, lost),
                              !.insights_json =
                                  SaveInsightsToJson(@, all_insights, outcome)]
                     /\ call' =
                          [fn |-> "generate_all_insights",
                           arg |-> [call.arg EXCEPT !.runs.insights = @ + 1],
                           done |-> TRUE,
                           raised |-> outcome # "ok",
                           ret |-> [produced |-> produced,
                                    errors |-> {insight_functions[i].domain :
                                                  i \in {j \in 1..Len(insight_functions) :
                                                     \/ SelectRaises(insight_functions[j].table,
                                                                     insight_functions[j].columns)
                                                     \/ insight_functions[j].domain \in failing}},
                                    all_insights |-> all_insights,
                                    unsaved |-> lost,
                                    export |-> outcome,
                                    returned |-> IF outcome = "ok" THEN all_insights
                                                 ELSE <<>>]]
    /\ UNCHANGED <<refresh_status, response, run, db, csv, schema_file, etl_summary>>

\* detect_all_anomalies is called; ScanMetric is its loop.
detect_all_anomalies ==
    /\ Quiet
    /\ clock < MaxCalls
    /\ clock' = clock + 1
    /\ call' = [fn |-> "detect_all_anomalies",
                arg |-> [call.arg EXCEPT !.runs.anomalies = @ + 1],
                done |-> FALSE, raised |-> FALSE, ret |-> DetectLocals]
    /\ UNCHANGED <<refresh_status, response, run, db, csv, schema_file,
                   etl_summary, faults, derived>>

\* FORECAST_CONFIG['forecast_periods']
forecast_periods == 6

\* forecast_all_key_metrics: metrics_config
forecast_metrics ==
    << Metric("finance", "revenue", "Revenue"),
       Metric("finance", "expenses", "Expenses"),
       Metric("finance", "profit", "Profit"),
       Metric("hr", "turnover_rate_pct", "Employee Turnover Rate"),
       Metric("hr", "employee_count", "Employee Count") >>

\* forecast_metric raises when the query raises or when Prophet is given
\* fewer than 2 rows that are not NaN.
ForecastRaises(m) ==
    \/ SelectRaises(m.table, {"date", "num"})
    \/ Len(MetricHistory(m.table)) < 2

\* The rows save_forecast_to_db keeps of the forecast of m: Prophet predicts
\* the dates of the history and forecast_periods dates after its last one,
\* and the rows dated after now are kept.  The value Prophet predicts is not
\* modelled: the last value of the history stands for it.
ForecastRows(m, now) ==
    LET df == MetricHistory(m.table)
        last == df[Len(df)]
        future == [i \in 1..forecast_periods |->
                      [date |-> last.date + i, forecast_value |-> last.value,
                       metric_name |-> m.name, model_used |-> "Prophet"]]
    IN  SelectSeq(future, LAMBDA r : r.date > now)

\* save_forecast_to_db that appends to the insights table
SaveForecastsIntoInsights(d, rows) == [d EXCEPT !.insights = @ \o rows]

\* save_forecast_to_db: to_sql('forecasts', if_exists='append')
SaveForecasts(d, rows) == [d EXCEPT !.forecasts = @ \o rows]

\* forecast_all_key_metrics, metric by metric from position i: the metrics of
\* failing raise in forecast_metric or in save_forecast_to_db and write none.
RECURSIVE ForecastFrom(_, _, _, _)
ForecastFrom(i, d, now, failing) ==
    IF i > Len(forecast_metrics) THEN d
    ELSE LET m == forecast_metrics[i]
         IN  ForecastFrom(i + 1,
                          IF ForecastRaises(m) \/ m.name \in failing THEN d
                          ELSE SaveForecasts(d, ForecastRows(m, now)),
                          now, failing)

forecast_all_key_metrics ==
    /\ Quiet
    /\ clock < MaxCalls
    /\ clock' = clock + 1
    /\ \E failing \in SUBSET {forecast_metrics[i].name : i \in 1..Len(forecast_metrics)} :
          /\ Cardinality(failing) <= 1
          /\ failing # {} => CanFault
          /\ \A i \in 1..Len(forecast_metrics) :
                forecast_metrics[i].name \in failing => ~ForecastRaises(forecast_metrics[i])
          /\ faults' = faults + Cardinality(failing)
          /\ derived' = ForecastFrom(1, derived, call.arg.now, failing)
          /\ call' = [fn |-> "forecast_all_key_metrics",
                      arg |-> [call.arg EXCEPT !.runs.forecasts = @ + 1],
                      done |-> TRUE, raised |-> FALSE,
                      ret |-> [errors |-> {forecast_metrics[i].name :
                                             i \in {j \in 1..Len(forecast_metrics) :
                                                \/ ForecastRaises(forecast_metrics[j])
                                                \/ forecast_metrics[j].name \in failing}}]]
    /\ UNCHANGED <<refresh_status, response, run, db, csv, schema_file, etl_summary>>

\* etl_pipeline.main() between two engines
EtlBetween ==
    /\ Quiet
    /\ EtlMain(FALSE)

\* The fact tables of the store.  A row carries the columns the analyzers
\* select and num, the column the anomaly and forecast engines read.
FinanceFacts ==
    [exists |-> TRUE,
     rows |-> << [date |-> 1, revenue |-> 100, profit_margin_pct |-> 25, num |-> 100],
                 [date |-> 2, revenue |-> 106, profit_margin_pct |-> 25, num |-> 106] >>]
SalesFacts ==
    [exists |-> TRUE,
     rows |-> << [date |-> 5, region |-> "East", units_sold |-> 10],
                 [date |-> 5, region |-> "West", units_sold |-> 3] >>]
OperationsFacts ==
    [exists |-> TRUE,
     rows |-> << [date |-> 1, ontime_delivery_pct |-> 80,
                  avg_processing_time_hours |-> 90, num |-> 80] >>]
HrGrowing ==
    [exists |-> TRUE,
     rows |-> << [date |-> 1, employee_count |-> 250, turnover_rate_pct |-> 15, num |-> 15],
                 [date |-> 2, employee_count |-> 265, turnover_rate_pct |-> 25, num |-> 25] >>]
HrSteady ==
    [exists |-> TRUE,
     rows |-> << [date |-> 1, employee_count |-> 250, turnover_rate_pct |-> 15, num |-> 15],
                 [date |-> 2, employee_count |-> 255, turnover_rate_pct |-> 5, num |-> 5] >>]
ItFacts ==
    [exists |-> TRUE,
     rows |-> << [date |-> 5, priority |-> "Critical", tickets_opened |-> 100,
                  tickets_closed |-> 85, avg_resolution_time_hours |-> 80] >>]

InitDerived ==
    /\ refresh_status = InitStatus
    /\ response = NoResponse
    /\ clock = 0
    /\ run = [k \in Runners |-> IdleRun]
    /\ etl_summary = NoSummary
    /\ faults = 0
    /\ derived = NoDerived
    /\ schema_file = "ok"
    /\ csv = [t \in Tables |-> File(GeneratedA)]
    /\ call = [NoCall EXCEPT !.arg = [now |-> Today, runs |-> NoRuns]]
    /\ \E f \in {FinanceFacts, AbsentTable},
          h \in {HrGrowing, HrSteady, OutlierTable, AbsentTable},
          i \in {ItFacts, EmptyTable} :
          db = [t \in Tables |->
                   CASE t = "finance" -> f
                     [] t = "sales" -> SalesFacts
                     [] t = "operations" -> OperationsFacts
                     [] t = "hr" -> h
                     [] t = "it_tickets" -> i]

NextDerived ==
    \/ generate_all_insights
    \/ detect_all_anomalies
    \/ ScanMetric
    \/ forecast_all_key_metrics
    \/ EtlBetween
    \/ InitDb(CLI)
    \/ EnsureData(CLI)
    \/ LoadTable(CLI)
    \/ QualityChecks(CLI)
    \/ GenerateSummary(CLI)

SpecDerived == InitDerived /\ [][NextDerived]_vars

---------------------------------------------------------------------------
(* The accuracy of a forecast (src/models/forecasting.py).  A value y or   *)
(* yhat is a multiple of 1 / Scale, kept as its integer numerator; a       *)
(* metric is kept in hundredths, as round(x, 2) returns it.                *)

MaxPoints == 3
Scale == 2

\* DataFrame.merge(on='ds', how='inner'): the rows of actual_df whose ds is a
\* ds of forecast_df, in the order of actual_df, with y and yhat.
RECURSIVE Merge(_, _)
Merge(actual_df, forecast_df) ==
    IF actual_df = <<>> THEN <<>>
    ELSE LET a == Head(actual_df)
             hits == SelectSeq(forecast_df, LAMBDA f : f.ds = a.ds)
         IN  [i \in 1..Len(hits) |-> [ds |-> a.ds, y |-> a.y, yhat |-> hits[i].yhat]]
             \o Merge(Tail(actual_df), forecast_df)

RECURSIVE Gcd(_, _)
Gcd(a, b) == IF b = 0 THEN a ELSE Gcd(b, a % b)

Lcm(a, b) == (a * b) \div Gcd(a, b)

\* The largest r of lo..hi with r * r <= n.
RECURSIVE RootIn(_, _, _)
RootIn(n, lo, hi) ==
    IF lo = hi THEN lo
    ELSE LET mid == (lo + hi + 1) \div 2
         IN  IF mid * mid <= n THEN RootIn(n, mid, hi) ELSE RootIn(n, lo, mid - 1)

\* round(n / d, 2) for n >= 0 and d > 0, in hundredths: the nearest
\* hundredth, the even one of two that are equally near.
Round2(n, d) ==
    LET q == (100 * n) \div d
        r == (100 * n) % d
    IN  IF 2 * r < d THEN q
        ELSE IF 2 * r > d THEN q + 1
        ELSE IF q % 2 = 0 THEN q ELSE q + 1

\* round(sqrt(n / d), 2) in hundredths: the h with
\* (2h - 1)^2 <= 4 * 10^4 * n / d < (2h + 1)^2.
RoundRoot2(n, d) == (RootIn((40000 * n) \div d, 0, 40000) + 1) \div 2

RECURSIVE SumSeq(_)
SumSeq(s) == IF s = <<>> THEN 0 ELSE Head(s) + SumSeq(Tail(s))

RECURSIVE LcmSeq(_)
LcmSeq(s) == IF s = <<>> THEN 1 ELSE Lcm(Head(s), LcmSeq(Tail(s)))

\* np.where(actual != 0, actual, 1): the divisor of one error
Divisor(y) == IF y # 0 THEN Abs(y) ELSE Scale

\* the divisor max(|actual|, 1)
DivisorAtLeastOne(y) == IF Abs(y) > Scale THEN Abs(y) ELSE Scale

\* np.mean(np.abs((actual - predicted) / divisor)) * 100, rounded, for the
\* divisors div of the rows of merged.
Mape(merged, div) ==
    LET n == Len(merged)
        l == LcmSeq(div)
        terms == [i \in 1..n |-> Abs(merged[i].y - merged[i].yhat) * (l \div div[i])]
    IN  Round2(100 * SumSeq(terms), l * n)

\* _calculate_accuracy with max(|actual|, 1) as the divisor of the MAPE
AccuracyDividesByAtLeastOne(actual_df, forecast_df) ==
    LET merged == Merge(actual_df, forecast_df)
        n == Len(merged)
        err == [i \in 1..n |-> merged[i].y - merged[i].yhat]
    IN  IF n = 0 THEN [rmse |-> 0, mae |-> 0, mape |-> 0]
        ELSE [rmse |-> RoundRoot2(SumSeq([i \in 1..n |-> err[i] * err[i]]),
                                  Scale * Scale * n),
              mae |-> Round2(SumSeq([i \in 1..n |-> Abs(err[i])]), Scale * n),
              mape |-> Mape(merged, [i \in 1..n |-> DivisorAtLeastOne(merged[i].y)])]

calculate_accuracy(actual_df, forecast_df) ==
    LET merged == Merge(actual_df, forecast_df)
        n == Len(merged)
        err == [i \in 1..n |-> merged[i].y - merged[i].yhat]
    IN  IF n = 0 THEN [rmse |-> 0, mae |-> 0, mape |-> 0]
        ELSE [rmse |-> RoundRoot2(SumSeq([i \in 1..n |-> err[i] * err[i]]),
                                  Scale * Scale * n),
              mae |-> Round2(SumSeq([i \in 1..n |-> Abs(err[i])]), Scale * n),
              mape |-> Mape(merged, [i \in 1..n |-> Divisor(merged[i].y)])]

AccuracyCall ==
    /\ call.fn = "calculate_accuracy"
    /\ ~call.done
    /\ call' = [call EXCEPT !.done = TRUE,
                            !.ret = calculate_accuracy(call.arg.actual_df,
                                                       call.arg.forecast_df)]
    /\ UNCHANGED <<refresh_status, response, clock, run, db, csv, schema_file,
                   etl_summary, faults, derived>>

\* The history has one row per date 1, 2, ...; Prophet predicts some dates.
\* The values 0, 1 / 2, 10, 20, 30 and the predictions 10, 18, 33.
ActualValues == {0, 1, 20, 40, 60}
PredictedValues == {20, 36, 66}

InitAccuracy ==
    /\ refresh_status = InitStatus
    /\ response = NoResponse
    /\ clock = 0
    /\ run = [k \in Runners |-> IdleRun]
    /\ etl_summary = NoSummary
    /\ faults = 0
    /\ derived = NoDerived
    /\ schema_file = "ok"
    /\ csv = [t \in Tables |-> MissingFile]
    /\ db = [t \in Tables |-> EmptyTable]
    /\ \E n \in 0..MaxPoints, S \in SUBSET (1..MaxPoints) :
          \E y \in [1..n -> ActualValues], yhat \in [S -> PredictedValues] :
             call = [NoCall EXCEPT
                        !.fn = "calculate_accuracy",
                        !.arg = [actual_df |-> [i \in 1..n |-> [ds |-> i, y |-> y[i]]],
                                 forecast_df |-> [i \in 1..Cardinality(S) |->
                                     [ds |-> Ascending(S)[i],
                                      yhat |-> yhat[Ascending(S)[i]]]]]]

NextAccuracy == AccuracyCall

SpecAccuracy == InitAccuracy /\ [][NextAccuracy]_vars

---------------------------------------------------------------------------
(* Claims *)

Executing(k) == run[k].pc \notin {"idle", "scheduled", "done", "failed", "aborted"}

\* C1: at most one refresh_data_task is executing at any time, for every
\* interleaving of POST /refresh requests and background tasks.
C1_SingleFlight == Cardinality({k \in Tasks : Executing(k)}) <= 1

\* C2: a POST /refresh handled while the status is "running" answers 409,
\* schedules no background task and leaves the three fields of
\* refresh_status as they were.
C2_ConcurrentRefreshRejected ==
    [][\A req \in Requests :
          (refresh_status.status = "running" /\ refresh_data(req)) =>
             /\ response'.code = 409
             /\ run' = run
             /\ refresh_status'.status = refresh_status.status
             /\ refresh_status'.last_refresh = refresh_status.last_refresh
             /\ refresh_status'.message = refresh_status.message]_vars

C2_Witness ==
    /\ response = Reply("refresh", 409, "error")
    /\ refresh_status.status = "running"
    /\ \E k \in Tasks : Executing(k)

\* C3: the step that ends a refresh sets the status to "failed", with an error
\* message, exactly when an exception escaped to the except clause of
\* refresh_data_task; a refresh in which only recoverable units failed (a
\* table load, a metric's forecast or anomaly scan, a domain analyzer, an
\* insight's persistence) ends with the status "completed".
RecoverableUnits ==
    {"table load", "metric forecast", "metric scan", "domain analyzer",
     "insight persistence"}

C3_FailedOnlyOnEscape ==
    [][\A k \in Tasks :
          (Executing(k) /\ run'[k].pc \in {"done", "failed"}) =>
             /\ (refresh_status'.status = "failed") <=> (run'[k].error # "")
             /\ run'[k].error # "" =>
                   refresh_status'.message = "Error during refresh: " \o run'[k].error
             /\ run'[k].error = "" => refresh_status'.status = "completed"
             /\ run'[k].failures \subseteq RecoverableUnits =>
                   refresh_status'.status = "completed"]_vars

C3_Witness ==
    \E k \in Tasks :
        /\ run[k].pc = "done"
        /\ "table load" \in run[k].failures
        /\ refresh_status.status = "completed"

\* C4: when init_database raises, run_full_pipeline aborts with that error
\* and no later step has run: no data generation, no table load, no quality
\* check, no summary; the fact tables are as they were before the run.
SchemaErrors == {"schema missing", "schema malformed"}

C4_SchemaFailureIsFatal ==
    run[CLI].error \in SchemaErrors =>
        /\ run[CLI].pc = "aborted"
        /\ run[CLI].attempted = {}
        /\ run[CLI].checks_failed = 0
        /\ \A t \in Tables : csv[t].exists => csv[t] = run[CLI].before.csv[t]
        /\ db = run[CLI].before.db
        /\ etl_summary = run[CLI].before.summary

C4_Witness ==
    /\ run[CLI].error \in SchemaErrors
    /\ run[CLI].pc = "aborted"
    /\ \E t \in Tables : db[t].exists /\ db[t].rows # <<>>

\* C5: a failure while loading one table is recorded as 0 rows for it and
\* every other table is still attempted, whatever the position of the
\* failing table in the load order.
Before(i) == {TableOrder[j] : j \in 1..(i - 1)}

C5_LoadIsolation ==
    /\ run[CLI].pc = "etl_load" => run[CLI].attempted = Before(run[CLI].idx)
    /\ run[CLI].pc \in {"etl_quality", "etl_summary", "done"} =>
          run[CLI].attempted = Tables
    /\ \A t \in run[CLI].load_failed : run[CLI].load_results[t] = 0

C5_Witness ==
    /\ run[CLI].pc = "done"
    /\ run[CLI].load_failed = {"finance", "operations"}
    /\ \A t \in Tables \ run[CLI].load_failed :
          db[t].exists /\ run[CLI].load_results[t] > 0

\* C6: a run of the pipeline on the sources the previous run loaded leaves
\* every fact table with the rows it had after that run: a load replaces the
\* table, it never appends to it.
RunSucceeded == run[CLI].pc = "done" /\ run[CLI].load_failed = {}

C6_IdempotentLoad ==
    (RunSucceeded /\ run[CLI].before.ok /\ csv = run[CLI].before.csv) =>
        db = run[CLI].before.db

C6_Witness ==
    /\ RunSucceeded
    /\ run[CLI].before.ok
    /\ csv = run[CLI].before.csv
    /\ \A t \in Tables : Len(db[t].rows) > 1

\* C7: after a successful run the row count of every fact table is the row
\* count of its cleaned source, that is the number of distinct source rows
\* once the dates are converted, and is the count the load reported.
DistinctRows(df) == Cardinality({ConvertDates(df)[i] : i \in 1..Len(df)})

C7_RowCountsMatch ==
    RunSucceeded =>
        \A t \in Tables :
            /\ db[t].exists
            /\ run[CLI].load_results[t] = Len(db[t].rows)
            /\ csv[t].exists => Len(db[t].rows) = DistinctRows(csv[t].rows)

C7_Witness ==
    /\ RunSucceeded
    /\ \E t \in Tables :
          /\ csv[t].exists
          /\ Len(db[t].rows) < Len(csv[t].rows)
          /\ Len(db[t].rows) > 0

\* C8: a failed table load leaves the table absent or holding exactly the
\* rows of the prior run.
C8_FailedLoadLeavesPriorOrAbsent ==
    \A t \in run[CLI].load_failed :
        \/ ~db[t].exists
        \/ db[t] = run[CLI].before.db[t]

\* C9: after cleaning, the numeric column holds no null, whatever the source.
C9_NoNumericNull ==
    (call.done /\ ~call.raised) =>
        \A i \in 1..Len(call.ret) : call.ret[i].num # NaN

\* C10: after cleaning, no two rows of the frame are identical.
C10_NoDuplicateRows ==
    (call.done /\ ~call.raised) =>
        \A i, j \in 1..Len(call.ret) : i # j => call.ret[i] # call.ret[j]

ZScoreReturned == call.fn = "detect_zscore_anomalies" /\ call.done

ConstantSeries(df) == df # <<>> /\ \A i \in 1..Len(df) : df[i].value = df[1].value

Flagged(rows) == {i \in 1..Len(rows) : rows[i].is_anomaly}

\* C11: on a series whose values are all equal, whatever its length and
\* whatever the threshold, detect_zscore_anomalies gives every observation
\* the score 0 and flags none.
C11_ConstantSeriesScoresZero ==
    (ZScoreReturned /\ ConstantSeries(call.arg.df)) =>
        \A i \in 1..Len(call.ret) :
            /\ call.ret[i].z_score = Score(0, 1)
            /\ ~call.ret[i].is_anomaly

\* The threshold in force: the configured one when none is given.
EffectiveThreshold(t) == IF t = NoThreshold THEN z_score_threshold ELSE t

AtMost(t1, t2) ==
    EffectiveThreshold(t1).p * EffectiveThreshold(t2).q
        <= EffectiveThreshold(t2).p * EffectiveThreshold(t1).q

\* Raising the threshold on the series of the call flags a subset.
RaisingFlagsSubset ==
    \A t2 \in Thresholds :
        AtMost(call.arg.threshold, t2) =>
            Flagged(detect_zscore_anomalies(call.arg.df, t2)) \subseteq Flagged(call.ret)

\* C12 as stated: raising the threshold flags a subset of the observations,
\* and an observation is flagged exactly when its score strictly exceeds the
\* threshold.
C12_FlaggedIffScoreExceeds ==
    ZScoreReturned =>
        /\ RaisingFlagsSubset
        /\ \A i \in 1..Len(call.ret) :
              call.ret[i].is_anomaly <=>
                  Exceeds(call.ret[i].z_score, EffectiveThreshold(call.arg.threshold))

\* C12 as amended: raising the threshold flags a subset of the observations,
\* and an observation is flagged exactly when the standard deviation of the
\* series is not 0 and its score strictly exceeds the threshold.
C12_ThresholdMonotone ==
    ZScoreReturned =>
        /\ RaisingFlagsSubset
        /\ \A i \in 1..Len(call.ret) :
              call.ret[i].is_anomaly <=>
                  /\ ~ConstantSeries(call.arg.df)
                  /\ Exceeds(call.ret[i].z_score, EffectiveThreshold(call.arg.threshold))

C12_Witness ==
    /\ ZScoreReturned
    /\ Flagged(call.ret) # {}
    /\ \E t2 \in Thresholds :
          /\ AtMost(call.arg.threshold, t2)
          /\ Flagged(detect_zscore_anomalies(call.arg.df, t2)) = {}
    /\ \E i \in 1..Len(call.ret) :
          /\ ~call.ret[i].is_anomaly
          /\ call.ret[i].z_score \notin {Score(0, 1), ScoreNaN}

DetectAllReturned == call.fn = "detect_all_anomalies" /\ call.done

Persisted(name) == SelectSeq(derived.anomalies, LAMBDA a : a.metric_name = name)

\* C13: when detect_all_anomalies returns, every one of the 8 metrics has
\* been scanned; a metric whose scan and inserts did not fail has its
\* anomalies returned and persisted, whatever failed for the other metrics;
\* a metric with an empty history has an empty result and no error.
C13_MetricIsolation ==
    /\ call.fn = "detect_all_anomalies" =>
          call.ret.scanned = {metrics_config[i].name : i \in 1..(call.ret.idx - 1)}
    /\ DetectAllReturned =>
          /\ ~call.raised
          /\ call.ret.scanned = MetricNames
          /\ \A i \in 1..Len(metrics_config) :
                LET m == metrics_config[i]
                    expected == detect_metric_anomalies(m.table, m.column)
                IN  /\ (m.name \notin call.ret.errors) =>
                          call.ret.results[m.name] = expected
                    /\ (m.name \notin call.ret.errors \cup call.ret.unsaved) =>
                          Persisted(m.name) =
                              [j \in 1..Len(expected) |-> AnomalyRecord(expected[j], m.name)]
                    /\ (db[m.table].exists /\ MetricHistory(m.table) = <<>>
                           /\ m.name \notin call.ret.errors) =>
                          call.ret.results[m.name] = <<>>

C13_Witness ==
    /\ DetectAllReturned
    /\ "Revenue" \in call.ret.errors
    /\ call.ret.results["Expenses"] # <<>>
    /\ Persisted("Expenses") # <<>>
    /\ Persisted("Turnover Rate") # <<>>
    /\ db["operations"] = EmptyTable

AnomalyInsightsReturned == call.fn = "generate_anomaly_insights" /\ call.done

Min(a, b) == IF a < b THEN a ELSE b

\* C14: for a date-ordered frame of n anomalies, each with a date,
\* generate_anomaly_insights returns min(3, n) narratives, and they describe
\* the anomalies with the 3 latest dates.
C14_ThreeMostRecent ==
    (AnomalyInsightsReturned /\ NaT \notin DatesOf(call.arg.rows)) =>
        /\ ~call.raised
        /\ Len(call.ret) = Min(3, Len(call.arg.rows))
        /\ DatesOf(call.ret) = DatesOf(TailRows(call.arg.rows, 3))

Returned(fn) == call.fn = fn /\ call.done

WithText(insights, texts) == SelectSeq(insights, LAMBDA x : x.insight_text \in texts)

RevenueTexts ==
    {"revenue accelerated", "revenue declined", "revenue slowed", "revenue steady"}

\* The row of the finance table with the k-th latest date.
FinanceRow(k) ==
    LET rows == db["finance"].rows
    IN  rows[CHOOSE i \in 1..Len(rows) :
                 Cardinality({j \in 1..Len(rows) : rows[j].date > rows[i].date}) = k - 1]

LatestRevenue == FinanceRow(1).revenue
PrevRevenue == FinanceRow(2).revenue

\* C15: with at least 2 rows in the finance window the finance analyzer
\* returns exactly one revenue-growth insight, whatever the two latest
\* revenues are; with fewer than 2 rows it returns no insight.
C15_OneRevenueInsight ==
    Returned("analyze_revenue_trends") =>
        /\ Len(db["finance"].rows) >= 2 =>
              /\ Len(WithText(call.ret, RevenueTexts)) = 1
              /\ call.ret[1].insight_text \in RevenueTexts
        /\ Len(db["finance"].rows) < 2 => call.ret = <<>>

C15_Witness ==
    /\ Returned("analyze_revenue_trends")
    /\ Len(db["finance"].rows) = MaxFinance
    /\ PrevRevenue = 0
    /\ LatestRevenue = 100
    /\ Len(WithText(call.ret, RevenueTexts)) = 1
    /\ call.ret[1].metric_value.kind = "inf"

\* growth rate >= k percent and < k percent, for a positive previous revenue
GrowthAtLeast(k) == (LatestRevenue - PrevRevenue) * 100 >= k * PrevRevenue
GrowthBelow(k) == (LatestRevenue - PrevRevenue) * 100 < k * PrevRevenue

GrowthDefined == Len(db["finance"].rows) >= 2 /\ PrevRevenue > 0

\* C16: for every month-over-month growth rate of at least 5%, exactly 5%
\* included, the finance analyzer returns the info insight for accelerated
\* growth and not the one for steady growth.
C16_GoodFromFivePercent ==
    (Returned("analyze_revenue_trends") /\ GrowthDefined /\ GrowthAtLeast(5)) =>
        /\ Len(WithText(call.ret, {"revenue accelerated"})) = 1
        /\ call.ret[1].severity = "info"
        /\ WithText(call.ret, {"revenue steady"}) = <<>>

\* C17: a growth rate below -5% gives the critical insight, one from -5% to
\* below 0% the warning insight, one from 0% to below 5% the info insight for
\* steady growth; revenue 100 then 93 gives the critical insight.
C17_NegativeGrowthClassified ==
    (Returned("analyze_revenue_trends") /\ GrowthDefined) =>
        /\ GrowthBelow(-5) =>
              /\ call.ret[1].insight_text = "revenue declined"
              /\ call.ret[1].severity = "critical"
        /\ (GrowthAtLeast(-5) /\ GrowthBelow(0)) =>
              /\ call.ret[1].insight_text = "revenue slowed"
              /\ call.ret[1].severity = "warning"
        /\ (GrowthAtLeast(0) /\ GrowthBelow(5)) =>
              /\ call.ret[1].insight_text = "revenue steady"
              /\ call.ret[1].severity = "info"
        /\ (PrevRevenue = 100 /\ LatestRevenue = 93) =>
              /\ call.ret[1].severity = "critical"
              /\ call.ret[1].metric_value = Float("number", -700, 100)

C17_Witness ==
    /\ Returned("analyze_revenue_trends")
    /\ GrowthDefined
    /\ PrevRevenue = 100
    /\ LatestRevenue = 93
    /\ call.ret[1].severity = "critical"

\* The sales window and, for its latest month, the units of each region.
SalesWindow == InWindow(db["sales"].rows, call.arg.now)

UnitsOf(g) ==
    SumColumn(SelectSeq(SalesWindow,
                        LAMBDA r : r.date = MaxDate(SalesWindow) /\ r.region = g),
              "units_sold")

SellingRegions ==
    {g \in {"East", "West"} :
        \E i \in 1..Len(SalesWindow) :
            SalesWindow[i].date = MaxDate(SalesWindow) /\ SalesWindow[i].region = g}

BestUnits == CHOOSE u \in {UnitsOf(g) : g \in SellingRegions} :
                 \A g \in SellingRegions : UnitsOf(g) <= u
WorstUnits == CHOOSE u \in {UnitsOf(g) : g \in SellingRegions} :
                  \A g \in SellingRegions : UnitsOf(g) >= u

BestRegionTexts == {"best region East", "best region West"}
UnderperformingTexts == {"underperforming region East", "underperforming region West"}

\* C18: with a non-empty sales window the sales analyzer returns exactly one
\* info insight for the best region, a region with the most units in the
\* latest month, and one more insight, a warning for the worst region,
\* exactly when the worst region's units are strictly below 70% of the best
\* region's.
C18_BestRegionAndWarning ==
    Returned("analyze_sales_performance") =>
        /\ SalesWindow = <<>> => call.ret = <<>>
        /\ SalesWindow # <<>> =>
              /\ Len(WithText(call.ret, BestRegionTexts)) = 1
              /\ call.ret[1].severity = "info"
              /\ call.ret[1].metric_value = Quot(BestUnits, 1)
              /\ \E g \in SellingRegions :
                    /\ UnitsOf(g) = BestUnits
                    /\ call.ret[1].insight_text = "best region " \o g
              /\ Len(call.ret) = IF 10 * WorstUnits < 7 * BestUnits THEN 2 ELSE 1
              /\ Len(call.ret) = 2 =>
                    /\ call.ret[2].severity = "warning"
                    /\ call.ret[2].insight_text \in UnderperformingTexts
                    /\ call.ret[2].metric_value = Quot(WorstUnits, 1)

C18_Witness ==
    /\ Returned("analyze_sales_performance")
    /\ SellingRegions = {"East", "West"}
    /\ BestUnits = 10
    /\ WorstUnits = 7
    /\ Len(call.ret) = 1
    /\ \E i \in 1..Len(db["sales"].rows) : db["sales"].rows[i].date < call.arg.now - 3

\* The processing times of the operations table, one row per month in the
\* order of the dates, and the first month of the trailing window of 6.
ProcessingTime(i) == db["operations"].rows[i].avg_processing_time_hours
Months == Len(db["operations"].rows)
WindowStart == IF Months > 6 THEN Months - 5 ELSE 1
OlderSum ==
    ProcessingTime(WindowStart) + ProcessingTime(WindowStart + 1)
        + ProcessingTime(WindowStart + 2)
RecentSum ==
    ProcessingTime(Months - 2) + ProcessingTime(Months - 1) + ProcessingTime(Months)

TicketWindow == InWindow(db["it_tickets"].rows, call.arg.now)
LatestTickets == SelectSeq(TicketWindow, LAMBDA r : r.date = MaxDate(TicketWindow))
Opened == SumColumn(LatestTickets, "tickets_opened")
Closed == SumColumn(LatestTickets, "tickets_closed")
Backlog == WithText(call.ret, {"backlog growing"})

\* C20: the IT analyzer returns the backlog warning exactly when the tickets
\* closed in the latest period are strictly below 90% of the tickets opened,
\* with the metric value (opened - closed) / opened * 100: 15 for 100 opened
\* and 85 closed, no backlog insight for 95 or 90 closed, none for 0 opened.
C20_BacklogRule ==
    Returned("analyze_it_performance") =>
        /\ TicketWindow = <<>> => call.ret = <<>>
        /\ TicketWindow # <<>> =>
              /\ Len(Backlog) = IF 10 * Closed < 9 * Opened THEN 1 ELSE 0
              /\ Backlog # <<>> =>
                    /\ Backlog[1].severity = "warning"
                    /\ Backlog[1].metric_value.kind = "number"
                    /\ Backlog[1].metric_value.num * Opened =
                          (Opened - Closed) * 100 * Backlog[1].metric_value.den
              /\ (Opened = 100 /\ Closed = 85) =>
                    /\ Backlog # <<>>
                    /\ Backlog[1].metric_value.num = 15 * Backlog[1].metric_value.den
              /\ (Opened = 100 /\ Closed \in {90, 95}) => Backlog = <<>>
              /\ Opened = 0 => Backlog = <<>>

C20_Witness ==
    /\ Returned("analyze_it_performance")
    /\ Len(LatestTickets) = 2
    /\ Opened = 100
    /\ Closed = 85
    /\ Len(Backlog) = 1
    /\ Backlog[1].metric_value = Float("number", 1500, 100)

\* What generate_all_insights left behind, once it is over.
InsightsGenerated == call.fn = "generate_all_insights" /\ call.done

\* The last n rows of a table.
Suffix(s, n) == SubSeq(s, Len(s) - n + 1, Len(s))

\* The insights whose insert did not raise, in order.
Saved == InsertInsights(<<>>, call.ret.all_insights, call.ret.unsaved)

\* C21: when an analyzer of generate_all_insights raises, the failing
\* domain contributes no insight and the insights of every other domain are
\* still returned, persisted to the insights table and written to the
\* export artifact (no insert fails and the artifact can be opened).
C21_PartialFailureIsolation ==
    (InsightsGenerated /\ call.ret.errors # {} /\ call.ret.unsaved = {}
        /\ call.ret.export # "open_failed")
    => /\ \A i \in 1..Len(insight_functions) :
             insight_functions[i].domain \in call.ret.errors
                => call.ret.produced[i] = <<>>
       /\ ~call.raised
       /\ call.ret.returned = Concat(call.ret.produced)
       /\ Suffix(derived.insights, Len(call.ret.returned)) = call.ret.returned
       /\ derived.insights_json = Artifact(Concat(call.ret.produced))

\* C22: when the insert of one insight raises, the insight is still in the
\* returned sequence and in the export artifact, and the later insights are
\* still persisted: the returned sequence and the artifact hold every
\* insight the analyzers produced.
C22_PersistenceFailureKeepsInsight ==
    (InsightsGenerated /\ call.ret.export # "open_failed")
    => /\ call.ret.returned = Concat(call.ret.produced)
       /\ derived.insights_json = Artifact(Concat(call.ret.produced))
       /\ Suffix(derived.insights, Len(Saved)) = Saved

IsPrefix(s, t) == Len(s) <= Len(t) /\ SubSeq(t, 1, Len(s)) = s

RECURSIVE Copies(_, _)
Copies(s, k) == IF k = 0 THEN <<>> ELSE s \o Copies(s, k - 1)

\* The rows one run of detect_all_anomalies inserts when no insert fails.
RECURSIVE DetectedFrom(_)
DetectedFrom(i) ==
    IF i > Len(metrics_config) THEN <<>>
    ELSE LET c == metrics_config[i]
         IN  (IF QueryRaises(c.table) THEN <<>>
              ELSE SaveAnomalies(<<>>, detect_metric_anomalies(c.table, c.column),
                                 c.name, {}))
             \o DetectedFrom(i + 1)

\* No fault was injected and no ETL run has replaced the fact tables.
Undisturbed == faults = 0 /\ run[CLI].invocation = 0

KCopies ==
    (Quiet /\ Undisturbed)
    => /\ derived.insights =
            Copies(Concat(Produced(Today, {})), call.arg.runs.insights)
       /\ derived.anomalies = Copies(DetectedFrom(1), call.arg.runs.anomalies)

\* C23: the derived tables are append-only: every step of the engines and
\* of the ETL leaves the rows a derived table held in place, so no row count
\* decreases; and k runs of insight generation or of anomaly detection on
\* unchanged fact tables leave k copies of each insight or anomaly.
C23_DerivedTablesAccumulate ==
    /\ [][/\ IsPrefix(derived.insights, derived'.insights)
          /\ IsPrefix(derived.anomalies, derived'.anomalies)
          /\ IsPrefix(derived.forecasts, derived'.forecasts)]_vars
    /\ []KCopies

C23_Witness ==
    /\ Quiet /\ Undisturbed
    /\ call.arg.runs.insights = 2
    /\ Len(derived.insights) = 2 * Len(Concat(Produced(Today, {})))
    /\ derived.insights # <<>>

\* C24: each derived table has one writer: a step that changes insights is
\* a call of generate_all_insights, one that changes anomalies an iteration
\* of detect_all_anomalies, one that changes forecasts a call of
\* forecast_all_key_metrics; these calls leave the five fact tables as they
\* are; the fact tables change only in a step of the ETL, and a step of the
\* ETL changes no derived table.
C24_ExclusiveWriters ==
    [][/\ derived'.insights # derived.insights
            => call'.fn = "generate_all_insights" /\ clock' # clock
       /\ derived'.insights_json # derived.insights_json
            => call'.fn = "generate_all_insights" /\ clock' # clock
       /\ derived'.anomalies # derived.anomalies
            => call.fn = "detect_all_anomalies" /\ ~call.done /\ clock' = clock
       /\ derived'.forecasts # derived.forecasts
            => call'.fn = "forecast_all_key_metrics" /\ clock' # clock
       /\ call' # call => db' = db
       /\ db' # db => run[CLI].pc \in {"etl_init", "etl_load"}
       /\ run' # run => derived' = derived]_vars

C24_Witness ==
    /\ derived.insights # <<>>
    /\ derived.forecasts # <<>>
    /\ run[CLI].pc = "done"
    /\ \A t \in Tables : db[t] = [exists |-> TRUE, rows |-> clean_dataframe(GeneratedA)]

Severities == {"info", "warning", "critical"}
Categories == {"finance", "sales", "operations", "hr", "it"}

\* The domain of an analyzer.
CategoryOf(fn) ==
    CASE fn = "analyze_revenue_trends" -> "finance"
      [] fn = "analyze_sales_performance" -> "sales"
      [] fn = "analyze_operations_efficiency" -> "operations"
      [] fn = "analyze_hr_metrics" -> "hr"
      [] fn = "analyze_it_performance" -> "it"

\* C25: every insight an analyzer returns has a severity among info,
\* warning and critical and carries the category of the analyzer's domain,
\* one of finance, sales, operations, hr and it.
C25_SeverityAndCategory ==
    call.done
    => \A i \in 1..Len(call.ret) :
          /\ call.ret[i].severity \in Severities
          /\ call.ret[i].category \in Categories
          /\ call.ret[i].category = CategoryOf(call.fn)

C25_Witness ==
    /\ call.fn = "analyze_hr_metrics"
    /\ call.done
    /\ Len(call.ret) = 2
    /\ call.ret[1].severity = "critical"

\* C26: the summary artifact of a finished run reports the rows and the
\* tables the run actually loaded: total_rows is the sum of the rows loaded
\* into the tables whose load succeeded and tables_loaded the number of
\* these tables, not of the tables attempted.
C26_SummaryReflectsOutcomes ==
    run[CLI].pc = "done"
    => /\ etl_summary.exists
       /\ etl_summary.total_rows =
             SumOver(run[CLI].load_results, Tables \ run[CLI].load_failed)
       /\ etl_summary.tables_loaded = Cardinality(Tables \ run[CLI].load_failed)

AccuracyReturned == call.fn = "calculate_accuracy" /\ call.done

\* h hundredths is a hundredth nearest to n / d (n >= 0, d > 0).
Nearest(h, n, d) == 2 * Abs(h * d - 100 * n) <= d

\* h hundredths is the hundredth nearest to sqrt(n / d).
NearestRoot(h, n, d) ==
    /\ h >= 0
    /\ h > 0 => (2 * h - 1) * (2 * h - 1) * d <= 40000 * n
    /\ 40000 * n < (2 * h + 1) * (2 * h + 1) * d

\* The returned metrics are those of the inner join on the date, with
\* guard(y) the divisor of the error of an actual value y in the MAPE.
AccuracyIs(guard(_)) ==
    LET joined == Merge(call.arg.actual_df, call.arg.forecast_df)
        n == Len(joined)
        e == [i \in 1..n |-> Abs(joined[i].y - joined[i].yhat)]
        l == LcmSeq([i \in 1..n |-> guard(joined[i].y)])
    IN  IF n = 0 THEN call.ret = [rmse |-> 0, mae |-> 0, mape |-> 0]
        ELSE /\ NearestRoot(call.ret.rmse, SumSeq([i \in 1..n |-> e[i] * e[i]]),
                            Scale * Scale * n)
             /\ Nearest(call.ret.mae, SumSeq(e), Scale * n)
             /\ Nearest(call.ret.mape,
                        100 * SumSeq([i \in 1..n |-> e[i] * (l \div guard(joined[i].y))]),
                        l * n)

\* max(|actual|, 1)
AtLeastOne(y) == IF Abs(y) >= Scale THEN Abs(y) ELSE Scale

\* |actual|, and 1 for an actual value of 0
OneForZero(y) == IF y = 0 THEN Scale ELSE Abs(y)

\* actual = [10, 20, 30] and predicted = [10, 18, 33]
AccuracyExample ==
    /\ call.arg.actual_df = << [ds |-> 1, y |-> 20], [ds |-> 2, y |-> 40],
                               [ds |-> 3, y |-> 60] >>
    /\ call.arg.forecast_df = << [ds |-> 1, yhat |-> 20], [ds |-> 2, yhat |-> 36],
                                 [ds |-> 3, yhat |-> 66] >>

ExampleMetrics == AccuracyExample => call.ret = [rmse |-> 208, mae |-> 167, mape |-> 667]

\* C27 as claimed: the accuracy is computed over the inner join on the
\* date, RMSE and MAE as usual and MAPE = mean(|error| / max(|actual|, 1))
\* x 100, all rounded to hundredths; the example gives 2.08, 1.67 and 6.67
\* and an empty join gives 0 for all three.
C27_AccuracyDividesByAtLeastOne ==
    AccuracyReturned => AccuracyIs(AtLeastOne) /\ ExampleMetrics

\* C27, amended: the same with the MAPE dividing each error by the actual
\* value itself, and by 1 only when the actual value is 0.
C27_AccuracyDividesByActual ==
    AccuracyReturned => AccuracyIs(OneForZero) /\ ExampleMetrics

C27_Witness ==
    /\ AccuracyReturned
    /\ AccuracyExample
    /\ call.ret = [rmse |-> 208, mae |-> 167, mape |-> 667]

\* The stages of a refresh task, in the order of refresh_data_task and of
\* run_full_pipeline.
StageOrder ==
    << "scheduled", "etl_init", "etl_data", "etl_load", "etl_quality",
       "etl_summary", "forecast", "anomaly", "insight", "complete", "done" >>

Requested(req, stage) ==
    /\ stage = "forecast" => req.run_forecasting
    /\ stage = "anomaly" => req.run_anomaly_detection
    /\ stage = "insight" => req.run_insights

PositionOf(stage) == CHOOSE i \in 1..Len(StageOrder) : StageOrder[i] = stage

\* The first requested stage after the stage a task is at.
FollowingStage(r) ==
    IF r.pc = "idle" THEN "scheduled"
    ELSE LET later == {i \in (PositionOf(r.pc) + 1)..Len(StageOrder) :
                          Requested(r.request, StageOrder[i])}
         IN  StageOrder[CHOOSE i \in later : \A j \in later : i <= j]

\* C28: a refresh task goes through its stages in one order: schema
\* initialisation, source check or generation, table loads, quality checks
\* and summary of the ETL, then forecasting, anomaly detection and insight
\* generation; a stage the request disables is skipped (the task is never
\* at it); a task leaves a stage for the next requested one or fails; and
\* the status is set to completed only by a task whose last requested stage
\* has returned.
C28_StageOrder ==
    [][\A k \in Tasks :
          /\ run'[k].pc # run[k].pc
                => /\ run[k].pc \notin {"done", "failed"}
                   /\ run'[k].pc \in {"failed", FollowingStage(run[k])}
          /\ run'[k].pc \in {"forecast", "anomaly", "insight"}
                => Requested(run'[k].request, run'[k].pc)
          /\ (refresh_status'.status = "completed"
                 /\ \/ refresh_status.status # "completed"
                    \/ refresh_status'.last_refresh # refresh_status.last_refresh)
                => \E j \in Tasks : run[j].pc = "complete" /\ run'[j].pc = "done"]_vars

C28_Witness ==
    \E k \in Tasks :
       /\ run[k].pc = "done"
       /\ run[k].request.run_forecasting
       /\ ~run[k].request.run_anomaly_detection
       /\ refresh_status.status = "completed"

\* A step of a refresh task that has started.
TaskActs(k) == run'[k] # run[k] /\ run[k].pc \notin {"idle", "done", "failed"}

\* C29: refresh_status is changed only by a step of a refresh task, never by
\* GET /status or POST /refresh; last_refresh changes only in the step that
\* sets the status to completed; a step that sets the status to failed
\* leaves last_refresh as it was; and the status is never idle again once a
\* task has started.
C29_StatusFrame ==
    [][/\ refresh_status' # refresh_status
            => /\ \E k \in Tasks : TaskActs(k)
               /\ response' = response
       /\ refresh_status'.last_refresh # refresh_status.last_refresh
            => /\ refresh_status'.status = "completed"
               /\ \E k \in Tasks : run[k].pc = "complete" /\ run'[k].pc = "done"
       /\ (\E k \in Tasks : run'[k].pc = "failed" /\ run[k].pc # "failed")
            => /\ refresh_status'.status = "failed"
               /\ refresh_status'.last_refresh = refresh_status.last_refresh
       /\ refresh_status.status # "idle" => refresh_status'.status # "idle"
       /\ (\E k \in Tasks : run'[k].pc \notin {"idle", "scheduled"})
            => refresh_status'.status # "idle"]_vars

C29_Witness ==
    /\ refresh_status.status = "failed"
    /\ refresh_status.last_refresh > 0
    /\ response.endpoint = "status"

\* C30: with every queued task run and every call returning or raising, a
\* task that has set the status to running ends, completed or failed; a
\* status of running is followed by completed or failed; and a POST /refresh
\* that finds the status completed or failed is accepted.
C30_RefreshTerminates ==
    /\ \A k \in Tasks :
          (run[k].pc \notin {"idle", "scheduled"}) ~> (run[k].pc \in {"done", "failed"})
    /\ (refresh_status.status = "running")
          ~> (refresh_status.status \in {"completed", "failed"})
    /\ [][(response' # response /\ response'.endpoint = "refresh"
              /\ refresh_status.status \in {"completed", "failed"})
          => response'.code = 200]_vars

C30_Witness ==
    /\ response = Reply("refresh", 200, "accepted")
    /\ refresh_status.status \in {"completed", "failed"}
    /\ \E k, j \in Tasks : run[k].pc \in {"done", "failed"} /\ run[j].pc = "scheduled"

====
